---- MODULE Spec2Model ----
(***************************************************************************)
(* A model of the tourism orchestration backend (backend/app): the retry   *)
(* decorator, the TTL cache decorator, the Nominatim resolver, the places  *)
(* agent and the parent agent.  Every coroutine is cut at its await        *)
(* points: one action is the code the event loop runs without suspending.  *)
(*                                                                         *)
(* Python values: None is the empty tuple <<>>; any other value v is the   *)
(* one-element tuple <<v>>.  Times are integers (milliseconds for sleeps,  *)
(* clock ticks for time.time()).                                           *)
(***************************************************************************)
EXTENDS Integers, Sequences, FiniteSets, TLC

VARIABLES
    \* utils/retry.py: one call of the wrapper returned by async_retry
    rt_pc, rt_retries, rt_backoff, rt_attempt, rt_last_exc, rt_out,
    rt_invocations, rt_calls, rt_sleeps,
    \* agents/places_agent.py: one call of fetch_places
    fp_pc, fp_coords, fp_limit, fp_radius0, fp_radius, fp_expansions, fp_all,
    fp_out, fp_log,
    \* utils/cache.py: the store, the clock and the calls of async_wrapper
    c_store, c_now, c_lk, c_hist, c_overlap,
    \* services/geocode.py: one call of the body of geocode_place
    g_pc, g_query, g_key, g_stage, g_attempt, g_backoff, g_last_exc, g_out,
    g_lookups,
    \* services/geocode.py: the parsing of one provider response
    gp_data, gp_out,
    \* agents/parent_agent.py: one call of orchestrate
    o_pc, o_place, o_want, o_geo_out, o_geocode, o_tasks, o_out, o_done,
    \* services/open_meteo.py: the parsing of one provider response
    wp_data, wp_out,
    \* services/overpass.py: the parsing of one provider response
    ov_data, ov_limit, ov_out,
    \* agents/weather_agent.py: the calls of fetch_weather, one after another
    fw_call, fw_now, fw_hist,
    \* services/open_meteo.py: the summary and the forecast of one response
    fc_data, fc_out,
    \* middleware/rate_limit.py: _request_log, the clock, the request that is
    \* awaiting call_next, and what was dispatched and answered last
    rl_request_log, rl_now, rl_pending, rl_headers, rl_last, rl_forwarded,
    \* agents/places_agent.py: the wrapper async_retry makes around _fetch, and
    \* the requests one call of orchestrate has issued so far
    pf_pc, pf_attempt, pf_requests, o_geo_requests

retryVars == <<rt_pc, rt_retries, rt_backoff, rt_attempt, rt_last_exc, rt_out,
               rt_invocations, rt_calls, rt_sleeps>>

placesVars == <<fp_pc, fp_coords, fp_limit, fp_radius0, fp_radius, fp_expansions,
                fp_all, fp_out, fp_log>>

cacheVars == <<c_store, c_now, c_lk, c_hist, c_overlap>>

geoVars == <<g_pc, g_query, g_key, g_stage, g_attempt, g_backoff, g_last_exc,
             g_out, g_lookups>>

parseVars == <<gp_data, gp_out>>

orchFrame == <<o_pc, o_place, o_want, o_geo_out, o_geocode, o_tasks, o_out>>

orchVars == <<orchFrame, o_done>>

meteoVars == <<wp_data, wp_out>>

overpassVars == <<ov_data, ov_limit, ov_out>>

forecastVars == <<fc_data, fc_out>>

pureVars == <<parseVars, meteoVars, overpassVars, forecastVars>>

weatherVars == <<fw_call, fw_now, fw_hist>>

rateVars == <<rl_request_log, rl_now, rl_pending, rl_headers, rl_last, rl_forwarded>>

fetchVars == <<pf_pc, pf_attempt, pf_requests, o_geo_requests>>

sideVars == <<pureVars, weatherVars, rateVars, fetchVars>>

vars == <<retryVars, placesVars, cacheVars, geoVars, orchVars, sideVars>>

(***************************************************************************)
(* Python values and sequences                                             *)
(***************************************************************************)
None == <<>>

Some(v) == <<v>>

IsNone(o) == o = <<>>

Val(o) == o[1]

Last(s) == s[Len(s)]

Min(a, b) == IF a <= b THEN a ELSE b

Range(s) == {s[i] : i \in 1..Len(s)}

\* The sequences over S of length at most n.
RECURSIVE SeqsUpTo(_, _)
SeqsUpTo(S, n) ==
    IF n = 0 THEN {<<>>}
    ELSE LET shorter == SeqsUpTo(S, n - 1)
         IN shorter \cup {Append(s, x) : s \in {t \in shorter : Len(t) = n - 1}, x \in S}

RECURSIVE Pow2(_)
Pow2(n) == IF n <= 0 THEN 1 ELSE 2 * Pow2(n - 1)

\* The outcome of a call: a returned value or a raised exception.
Return(v) == [kind |-> "return", val |-> v]

Raise(e) == [kind |-> "raise", val |-> e]

NoOutcome == [kind |-> "none", val |-> None]

(***************************************************************************)
(* utils/retry.py: async_retry                                             *)
(***************************************************************************)
MaxRetries == 4

RetryValues == {Some("v1"), Some("v2")}

RetryErrors == {"e1", "e2"}

RetryBackoffs == {400, 500}

\* sleep_for = backoff_factor * (2 ** (attempt - 1)), attempt already counted.
SleepForLinear(backoff_factor, attempt) == backoff_factor * attempt

SleepFor(backoff_factor, attempt) == backoff_factor * Pow2(attempt - 1)

\* The except branch of wrapper: count the attempt, then re-raise or sleep.
RetryOnErrorOffByOne(attempt, retries, backoff) ==
    LET a == attempt + 1 IN
    [attempt |-> a, reraise |-> a > retries,
     sleep_for |-> SleepFor(backoff, a)]

RetryOnError(attempt, retries, backoff) ==
    LET a == attempt + 1 IN
    [attempt |-> a, reraise |-> a >= retries,
     sleep_for |-> SleepFor(backoff, a)]

\* The loop head `while attempt < retries` and what follows the loop.
RetryLoop(attempt, retries, last_exc) ==
    IF attempt < retries THEN [pc |-> "calling", out |-> NoOutcome]
    ELSE IF ~IsNone(last_exc) THEN [pc |-> "raised", out |-> Raise(Val(last_exc))]
    ELSE [pc |-> "returned", out |-> Return(None)]

RetryInit ==
    /\ rt_pc = "idle"
    /\ rt_retries = 0
    /\ rt_backoff = 0
    /\ rt_attempt = 0
    /\ rt_last_exc = None
    /\ rt_out = NoOutcome
    /\ rt_invocations = 0
    /\ rt_calls = <<>>
    /\ rt_sleeps = <<>>

\* wrapper(*args): attempt = 0, last_exc = None, enter the loop.
RetryCall(retries, backoff) ==
    /\ rt_pc = "idle"
    /\ rt_retries' = retries
    /\ rt_backoff' = backoff
    /\ rt_attempt' = 0
    /\ rt_last_exc' = None
    /\ LET nxt == RetryLoop(0, retries, None) IN
        /\ rt_pc' = nxt.pc
        /\ rt_out' = nxt.out
        /\ rt_invocations' = IF nxt.pc = "calling" THEN 1 ELSE 0
    /\ rt_calls' = <<>>
    /\ rt_sleeps' = <<>>

\* `return await func(*args, **kwargs)` completes with a value.
RetryFuncReturn(v) ==
    /\ rt_pc = "calling"
    /\ rt_pc' = "returned"
    /\ rt_out' = Return(v)
    /\ rt_calls' = Append(rt_calls, Return(v))
    /\ UNCHANGED <<rt_retries, rt_backoff, rt_attempt, rt_last_exc,
                   rt_invocations, rt_sleeps>>

\* func raises an exception of a caught type.
RetryFuncRaise(e) ==
    /\ rt_pc = "calling"
    /\ LET r == RetryOnError(rt_attempt, rt_retries, rt_backoff) IN
        /\ rt_attempt' = r.attempt
        /\ rt_last_exc' = Some(e)
        /\ rt_calls' = Append(rt_calls, Raise(e))
        /\ IF r.reraise
           THEN /\ rt_pc' = "raised"
                /\ rt_out' = Raise(e)
                /\ rt_sleeps' = rt_sleeps
           ELSE /\ rt_pc' = "sleeping"
                /\ rt_out' = rt_out
                /\ rt_sleeps' = Append(rt_sleeps, r.sleep_for)
    /\ UNCHANGED <<rt_retries, rt_backoff, rt_invocations>>

\* asyncio.sleep(sleep_for) is over: back to the loop head.
RetrySleepDone ==
    /\ rt_pc = "sleeping"
    /\ LET nxt == RetryLoop(rt_attempt, rt_retries, rt_last_exc) IN
        /\ rt_pc' = nxt.pc
        /\ rt_out' = nxt.out
        /\ rt_invocations' = IF nxt.pc = "calling" THEN rt_invocations + 1
                             ELSE rt_invocations
    /\ UNCHANGED <<rt_retries, rt_backoff, rt_attempt, rt_last_exc,
                   rt_calls, rt_sleeps>>

RetryDone == rt_pc \in {"returned", "raised"}

(***************************************************************************)
(* utils/cache.py: ttl_cache.async_wrapper                                 *)
(*                                                                         *)
(* _store maps a key to (expiry, value); a key that is absent maps to      *)
(* None.  A lookup that misses suspends in `await func(...)`; a hit        *)
(* returns without suspending.                                             *)
(***************************************************************************)
TtlSeconds == 2

MaxTime == 3

MaxLookups == 3

CacheKeys == {"k1", "k2"}

CacheValues == {Some("v1"), Some("v2")}

CacheErrors == {"e1"}

\* The coroutines that may be inside async_wrapper at once.
Callers == {1, 2}

Idle == [pc |-> "idle", key |-> "", now |-> 0]

\* `entry and entry[0] > now`: the entry is a non-empty tuple, so only its
\* presence and its expiry count.
CacheFreshInclusive(entry, now) == ~IsNone(entry) /\ Val(entry).expiry >= now

CacheFresh(entry, now) == ~IsNone(entry) /\ Val(entry).expiry > now

\* `(now + ttl_seconds, result)`
CacheEntryNoTtl(now, ttl_seconds, result) == [expiry |-> now, val |-> result]

CacheEntry(now, ttl_seconds, result) == [expiry |-> now + ttl_seconds, val |-> result]

\* One finished call of async_wrapper: its key, the time it read, what it
\* gave its caller, and whether it called func.
Lookup(key, now, out, invoked) ==
    [key |-> key, now |-> now, out |-> out, invoked |-> invoked]

CacheInit ==
    /\ c_store = [k \in CacheKeys |-> None]
    /\ c_now = 0
    /\ c_lk = [p \in Callers |-> Idle]
    /\ c_hist = <<>>
    /\ c_overlap = FALSE

InFlight == {p \in Callers : c_lk[p].pc = "computing"}

\* async_wrapper up to `return entry[1]` or up to `await func(...)`.
CacheLookup(p, key, ttl_seconds) ==
    /\ c_lk[p].pc = "idle"
    /\ IF CacheFresh(c_store[key], c_now)
       THEN /\ c_hist' = Append(c_hist, Lookup(key, c_now, Return(Val(c_store[key]).val), FALSE))
            /\ UNCHANGED <<c_lk, c_overlap>>
       ELSE /\ c_lk' = [c_lk EXCEPT ![p] = [pc |-> "computing", key |-> key, now |-> c_now]]
            /\ c_overlap' = (c_overlap \/ \E q \in InFlight : c_lk[q].key = key)
            /\ UNCHANGED c_hist
    /\ UNCHANGED <<c_store, c_now>>

\* `_store[key] = (now + ttl_seconds, result)`: whatever the store holds for
\* the key is replaced.
StoreOnReturnAtFinish(store, key, now, ttl_seconds, result) ==
    [store EXCEPT ![key] = Some(CacheEntry(c_now, ttl_seconds, result))]

StoreOnReturnKeepFresh(store, key, now, ttl_seconds, result) ==
    IF ~IsNone(store[key]) /\ Val(store[key]).expiry > now
    THEN store
    ELSE [store EXCEPT ![key] = Some(CacheEntry(now, ttl_seconds, result))]

StoreOnReturn(store, key, now, ttl_seconds, result) ==
    [store EXCEPT ![key] = Some(CacheEntry(now, ttl_seconds, result))]

\* func returned: store the result under the time read at the start, return it.
CacheFuncReturn(p, ttl_seconds, result) ==
    /\ c_lk[p].pc = "computing"
    /\ c_store' = StoreOnReturn(c_store, c_lk[p].key, c_lk[p].now, ttl_seconds, result)
    /\ c_hist' = Append(c_hist, Lookup(c_lk[p].key, c_lk[p].now, Return(result), TRUE))
    /\ c_lk' = [c_lk EXCEPT ![p] = Idle]
    /\ UNCHANGED <<c_now, c_overlap>>

\* _store after `await func(...)` raised: line 42 is not reached.
StoreOnRaiseNegative(store, key, now, e) ==
    [store EXCEPT ![key] = Some([expiry |-> now + 1, val |-> None])]

StoreOnRaise(store, key, now, e) == store

\* func raised: the exception leaves async_wrapper, nothing is stored.
CacheFuncRaise(p, e) ==
    /\ c_lk[p].pc = "computing"
    /\ c_store' = StoreOnRaise(c_store, c_lk[p].key, c_lk[p].now, e)
    /\ c_hist' = Append(c_hist, Lookup(c_lk[p].key, c_lk[p].now, Raise(e), TRUE))
    /\ c_lk' = [c_lk EXCEPT ![p] = Idle]
    /\ UNCHANGED <<c_now, c_overlap>>

\* time.time() moves on.
ClockTick ==
    /\ c_now < MaxTime
    /\ c_now' = c_now + 1
    /\ UNCHANGED <<c_store, c_lk, c_hist, c_overlap>>

(***************************************************************************)
(* agents/places_agent.py: fetch_places                                    *)
(*                                                                         *)
(* A POI is the dict built by parse_overpass_elements; `category` stands   *)
(* for everything but the name (category, lat, lon), which fetch_places    *)
(* only carries along.  A dict is the sequence of its values in insertion  *)
(* order, keyed by their name.                                             *)
(***************************************************************************)
DEFAULT_RADIUS == 5000

RADIUS_EXPANSION_FACTOR == 2

MAX_EXPANSIONS == 1

POI_LIMIT == 5

Poi(name, category) == [name |-> name, category |-> category]

\* Python truthiness of an optional string (a tuple of characters): neither
\* None nor "".
Truthy(name) == ~IsNone(name) /\ Val(name) # <<>>

\* d[p["name"]] = p: a new key goes last, an old key keeps its place and
\* takes the new value.
DictSet(d, p) ==
    IF \E i \in 1..Len(d) : d[i].name = p.name
    THEN [i \in 1..Len(d) |-> IF d[i].name = p.name THEN p ELSE d[i]]
    ELSE Append(d, p)

RECURSIVE DictOf(_, _)
DictOf(d, ps) ==
    IF ps = <<>> THEN d
    ELSE DictOf(IF Truthy(Head(ps).name) THEN DictSet(d, Head(ps)) ELSE d,
                Tail(ps))

\* {p["name"]: p for p in (all_places + places) if p.get("name")}.values()
MergeNoDedup(all_places, places) ==
    SelectSeq(all_places \o places, LAMBDA p : Truthy(p.name))

MergeDedup(all_places, places) == DictOf(<<>>, all_places \o places)

\* s[:n]
SliceTo(s, n) ==
    LET k == IF n >= 0 THEN Min(n, Len(s)) ELSE IF Len(s) + n > 0 THEN Len(s) + n ELSE 0
    IN SubSeq(s, 1, k)

\* `if len(all_places) >= limit: break`
EnoughPlaces(all_places, limit) == Len(all_places) >= limit

\* `while expansions <= MAX_EXPANSIONS`
MayExpandOnceMore(expansions) == expansions <= MAX_EXPANSIONS + 1

MayExpand(expansions) == expansions <= MAX_EXPANSIONS

PlacesInit ==
    /\ fp_pc = "idle"
    /\ fp_coords = None
    /\ fp_limit = 0
    /\ fp_radius0 = 0
    /\ fp_radius = 0
    /\ fp_expansions = 0
    /\ fp_all = <<>>
    /\ fp_out = NoOutcome
    /\ fp_log = <<>>

\* The call of _fetch(lat, lon, current_radius, limit), recorded.
RawFetchCall(coords, radius, limit) ==
    [coords |-> coords, radius |-> radius, limit |-> limit, out |-> NoOutcome]

\* fetch_places(lat, lon, radius, limit) up to its first await.
FetchPlacesCall(coords, radius, limit) ==
    /\ fp_pc = "idle"
    /\ fp_coords' = coords
    /\ fp_limit' = limit
    /\ fp_radius0' = radius
    /\ fp_radius' = radius
    /\ fp_expansions' = 0
    /\ fp_all' = <<>>
    /\ IF MayExpand(0)
       THEN /\ fp_pc' = "fetching"
            /\ fp_out' = NoOutcome
            /\ fp_log' = <<RawFetchCall(coords, radius, limit)>>
       ELSE /\ fp_pc' = "returned"
            /\ fp_out' = Return(SliceTo(<<>>, limit))
            /\ fp_log' = <<>>

\* `await _fetch(...)` is over with outcome `out`: the rest of the loop body,
\* then either the next _fetch or the truncation and the return.
RawFetchDone(out) ==
    /\ fp_pc = "fetching"
    /\ LET places == IF out.kind = "return" THEN out.val ELSE <<>>
           merged == MergeDedup(fp_all, places)
           logged == [fp_log EXCEPT ![Len(fp_log)].out = out]
           stop   == EnoughPlaces(merged, fp_limit)
           radius == IF stop THEN fp_radius ELSE fp_radius * RADIUS_EXPANSION_FACTOR
           expans == IF stop THEN fp_expansions ELSE fp_expansions + 1
       IN  /\ fp_radius' = radius
           /\ fp_expansions' = expans
           /\ IF ~stop /\ MayExpand(expans)
              THEN /\ fp_pc' = "fetching"
                   /\ fp_all' = merged
                   /\ fp_out' = fp_out
                   /\ fp_log' = Append(logged, RawFetchCall(fp_coords, radius, fp_limit))
              ELSE /\ fp_pc' = "returned"
                   /\ fp_all' = SliceTo(merged, fp_limit)
                   /\ fp_out' = Return(SliceTo(merged, fp_limit))
                   /\ fp_log' = logged
    /\ UNCHANGED <<fp_coords, fp_limit, fp_radius0>>

\* _fetch is decorated with async_retry(retries=3, backoff_factor=0.4).
FETCH_RETRIES == 3

FETCH_BACKOFF_MS == 400

FetchInit ==
    /\ pf_pc = "idle"
    /\ pf_attempt = 0
    /\ pf_requests = 0
    /\ o_geo_requests = 0

\* The wrapper around _fetch is entered when fetch_places goes on to a raw
\* fetch (attempt = 0, the first request is issued), and is left otherwise.
FetchEnter(started) ==
    /\ pf_pc' = IF started THEN "calling" ELSE "idle"
    /\ pf_attempt' = 0
    /\ pf_requests' = IF started THEN pf_requests + 1 ELSE pf_requests

(***************************************************************************)
(* services/geocode.py: _perform_request and geocode_place                 *)
(*                                                                         *)
(* A string is the tuple of its characters, so that strip() and lower()    *)
(* are computed.  An exception is its type and its message.                *)
(***************************************************************************)
Exc(type, msg) == [type |-> type, msg |-> msg]

Whitespace == {" ", "\t", "\n"}

RECURSIVE LStrip(_)
LStrip(s) == IF s # <<>> /\ Head(s) \in Whitespace THEN LStrip(Tail(s)) ELSE s

RECURSIVE RStrip(_)
RStrip(s) ==
    IF s # <<>> /\ Last(s) \in Whitespace THEN RStrip(SubSeq(s, 1, Len(s) - 1)) ELSE s

\* str.strip()
Strip(s) == RStrip(LStrip(s))

\* ALIAS_MAP.get(key, []): strings are tuples of characters.
AliasMapGet(key) ==
    CASE key = <<"b", "a", "n", "g", "a", "l", "o", "r", "e">> ->
           <<<<"b", "e", "n", "g", "a", "l", "u", "r", "u">>,
             <<"b", "e", "n", "g", "a", "l", "u", "r", "u", ",", " ", "i", "n", "d", "i", "a">>>>
      [] key = <<"b", "e", "n", "g", "a", "l", "u", "r", "u">> ->
           <<<<"b", "e", "n", "g", "a", "l", "u", "r", "u", ",", " ", "i", "n", "d", "i", "a">>,
             <<"b", "e", "n", "g", "a", "l", "u", "r", "u", ",", " ", "k", "a", "r", "n", "a", "t", "a", "k", "a">>>>
      [] key = <<"b", "o", "m", "b", "a", "y">> ->
           <<<<"m", "u", "m", "b", "a", "i">>,
             <<"m", "u", "m", "b", "a", "i", ",", " ", "i", "n", "d", "i", "a">>>>
      [] key = <<"c", "a", "l", "c", "u", "t", "t", "a">> ->
           <<<<"k", "o", "l", "k", "a", "t", "a">>,
             <<"k", "o", "l", "k", "a", "t", "a", ",", " ", "i", "n", "d", "i", "a">>>>
      [] key = <<"m", "a", "d", "r", "a", "s">> ->
           <<<<"c", "h", "e", "n", "n", "a", "i">>,
             <<"c", "h", "e", "n", "n", "a", "i", ",", " ", "i", "n", "d", "i", "a">>>>
      [] key = <<"p", "e", "k", "i", "n", "g">> ->
           <<<<"b", "e", "i", "j", "i", "n", "g">>,
             <<"b", "e", "i", "j", "i", "n", "g", ",", " ", "c", "h", "i", "n", "a">>>>
      [] key = <<"s", "a", "i", "g", "o", "n">> ->
           <<<<"h", "o", " ", "c", "h", "i", " ", "m", "i", "n", "h", " ", "c", "i", "t", "y">>,
             <<"h", "o", " ", "c", "h", "i", " ", "m", "i", "n", "h", " ", "c", "i", "t", "y", ",", " ", "v", "i", "e", "t", "n", "a", "m">>>>
      [] key = <<"p", "a", "r", "i", "s">> ->
           <<<<"p", "a", "r", "i", "s", ",", " ", "f", "r", "a", "n", "c", "e">>>>
      [] key = <<"l", "o", "n", "d", "o", "n">> ->
           <<<<"l", "o", "n", "d", "o", "n", ",", " ", "u", "k">>,
             <<"l", "o", "n", "d", "o", "n", ",", " ", "u", "n", "i", "t", "e", "d", " ", "k", "i", "n", "g", "d", "o", "m">>>>
      [] key = <<"t", "o", "k", "y", "o">> ->
           <<<<"t", "o", "k", "y", "o", ",", " ", "j", "a", "p", "a", "n">>>>
      [] key = <<"n", "e", "w", " ", "y", "o", "r", "k">> ->
           <<<<"n", "e", "w", " ", "y", "o", "r", "k", ",", " ", "u", "s", "a">>,
             <<"n", "e", "w", " ", "y", "o", "r", "k", " ", "c", "i", "t", "y">>>>
      [] key = <<"g", "o", "a">> ->
           <<<<"g", "o", "a", ",", " ", "i", "n", "d", "i", "a">>>>
      [] OTHER -> <<>>

\* STATIC_FALLBACK_RAW.get(key): (name, lat, lon), coordinates in 1/10000 degree.
StaticRawGet(key) ==
    CASE key = <<"b", "e", "n", "g", "a", "l", "u", "r", "u">> ->
           Some([name |-> <<"B", "e", "n", "g", "a", "l", "u", "r", "u", ",", " ", "I", "n", "d", "i", "a">>,
                 lat |-> 129716, lon |-> 775946])
      [] key = <<"b", "a", "n", "g", "a", "l", "o", "r", "e">> ->
           Some([name |-> <<"B", "e", "n", "g", "a", "l", "u", "r", "u", ",", " ", "I", "n", "d", "i", "a">>,
                 lat |-> 129716, lon |-> 775946])
      [] key = <<"g", "o", "a">> ->
           Some([name |-> <<"G", "o", "a", ",", " ", "I", "n", "d", "i", "a">>,
                 lat |-> 152993, lon |-> 741240])
      [] key = <<"m", "u", "m", "b", "a", "i">> ->
           Some([name |-> <<"M", "u", "m", "b", "a", "i", ",", " ", "I", "n", "d", "i", "a">>,
                 lat |-> 190760, lon |-> 728777])
      [] key = <<"d", "e", "l", "h", "i">> ->
           Some([name |-> <<"D", "e", "l", "h", "i", ",", " ", "I", "n", "d", "i", "a">>,
                 lat |-> 286139, lon |-> 772090])
      [] key = <<"p", "a", "r", "i", "s">> ->
           Some([name |-> <<"P", "a", "r", "i", "s", ",", " ", "F", "r", "a", "n", "c", "e">>,
                 lat |-> 488566, lon |-> 23522])
      [] key = <<"l", "o", "n", "d", "o", "n">> ->
           Some([name |-> <<"L", "o", "n", "d", "o", "n", ",", " ", "U", "n", "i", "t", "e", "d", " ", "K", "i", "n", "g", "d", "o", "m">>,
                 lat |-> 515072, lon |-> -1276])
      [] key = <<"t", "o", "k", "y", "o">> ->
           Some([name |-> <<"T", "o", "k", "y", "o", ",", " ", "J", "a", "p", "a", "n">>,
                 lat |-> 356762, lon |-> 1396503])
      [] key = <<"n", "e", "w", " ", "y", "o", "r", "k">> ->
           Some([name |-> <<"N", "e", "w", " ", "Y", "o", "r", "k", " ", "C", "i", "t", "y", ",", " ", "U", "S", "A">>,
                 lat |-> 407128, lon |-> -740060])
      [] OTHER -> None

\* str.lower() on one character.
LowerChar(c) ==
    CASE c = "A" -> "a"
      [] c = "B" -> "b"
      [] c = "C" -> "c"
      [] c = "D" -> "d"
      [] c = "E" -> "e"
      [] c = "F" -> "f"
      [] c = "G" -> "g"
      [] c = "H" -> "h"
      [] c = "I" -> "i"
      [] c = "J" -> "j"
      [] c = "K" -> "k"
      [] c = "L" -> "l"
      [] c = "M" -> "m"
      [] c = "N" -> "n"
      [] c = "O" -> "o"
      [] c = "P" -> "p"
      [] c = "Q" -> "q"
      [] c = "R" -> "r"
      [] c = "S" -> "s"
      [] c = "T" -> "t"
      [] c = "U" -> "u"
      [] c = "V" -> "v"
      [] c = "W" -> "w"
      [] c = "X" -> "x"
      [] c = "Y" -> "y"
      [] c = "Z" -> "z"
      [] OTHER -> c

\* str.lower()
Lower(s) == [i \in 1..Len(s) |-> LowerChar(s[i])]

\* `key = query.strip().lower()`
GeoKeyNoStrip(query) == Lower(query)

GeoKey(query) == Lower(Strip(query))

GeocodeResult(display_name, lat, lon, source) ==
    [display_name |-> display_name, lat |-> lat, lon |-> lon, source |-> source]

\* _static_result(key)
StaticResult(key) ==
    LET raw == StaticRawGet(key) IN
    IF IsNone(raw) THEN None
    ELSE Some(GeocodeResult(Val(raw).name, Val(raw).lat, Val(raw).lon, "static"))

\* Coordinates are kept as integers, in units of 1/CoordScale degree (the
\* static table gives four decimal places).
CoordScale == 10000

Digits == <<"0", "1", "2", "3", "4", "5", "6", "7", "8", "9">>

DigitValue(c) == (CHOOSE d \in 1..10 : Digits[d] = c) - 1

RECURSIVE DecimalValue(_)
DecimalValue(s) ==
    IF s = <<>> THEN 0
    ELSE 10 * DecimalValue(SubSeq(s, 1, Len(s) - 1)) + DigitValue(Last(s))

\* float(x), in units of 1/CoordScale degree, for x None (TypeError) or a string: a string of decimal digits
\* parses, anything else is a ValueError.  None stands for either error.
ParseFloat(x) ==
    IF IsNone(x) THEN None
    ELSE IF Val(x) # <<>> /\ \A i \in 1..Len(Val(x)) : Val(x)[i] \in Range(Digits)
         THEN Some(DecimalValue(Val(x)) * CoordScale)
         ELSE None

\* An item of the provider's JSON list.
GeoItem(display_name, lat, lon) ==
    [object |-> TRUE, display_name |-> display_name, lat |-> lat, lon |-> lon]

\* An item that is not a JSON object (a string, a number): it has no `get`.
GeoScalarItem == [object |-> FALSE, display_name |-> None, lat |-> None, lon |-> None]

\* `if len(results) >= 3: break`
GeoCapReachedLate(results) == Len(results) > 3

GeoCapReached(results) == Len(results) >= 3

\* The loop `for item in data` of _perform_request.
RECURSIVE ParseItems(_, _, _)
ParseItems(items, results, seen_names) ==
    IF items = <<>> THEN Return(results)
    ELSE LET item == Head(items)
             name == item.display_name
         IN IF ~item.object
            THEN Raise(Exc("AttributeError", "object has no attribute 'get'"))
            ELSE IF ~Truthy(name) \/ name \in seen_names
            THEN ParseItems(Tail(items), results, seen_names)
            ELSE LET seen == seen_names \cup {name}
                     lat  == ParseFloat(item.lat)
                     lon  == ParseFloat(item.lon)
                 IN IF IsNone(lat) \/ IsNone(lon)
                    THEN ParseItems(Tail(items), results, seen)
                    ELSE LET more == Append(results,
                                 GeocodeResult(Val(name), Val(lat), Val(lon), "nominatim"))
                         IN IF GeoCapReached(more) THEN Return(more)
                            ELSE ParseItems(Tail(items), more, seen)

NotFound == Exc("ValueError", "I don't know this place exists.")

\* _perform_request after the request loop: `data` is what resp.json() gave
\* (None when no attempt succeeded or the body was JSON null).
ParseResponse(data) ==
    IF data.kind = "null"
    THEN Raise(Exc("ValueError", "Geocoding service error"))
    ELSE IF data.kind # "list"
    THEN Raise(Exc("ValueError", "Geocoding service returned unexpected data shape"))
    ELSE IF data.items = <<>> THEN Raise(NotFound)
    ELSE LET parsed == ParseItems(data.items, <<>>, {}) IN
         IF parsed.kind = "return" /\ parsed.val = <<>> THEN Raise(NotFound) ELSE parsed

JsonList(items) == [kind |-> "list", items |-> items]

JsonObject == [kind |-> "object", items |-> <<>>]

JsonNull == [kind |-> "null", items |-> <<>>]

NotJson == [kind |-> "invalid", items |-> <<>>]

\* An HTTP exchange: status 0 stands for no response (a transport error).
HttpResponse(status, body) == [status |-> status, body |-> body]

\* One pass through the try block of the request loop.
HttpAttemptRetryEmpty(resp) ==
    IF resp.status = 0 THEN [ok |-> FALSE, exc |-> Exc("TransportError", ""), data |-> JsonNull]
    ELSE IF resp.status = 429
    THEN [ok |-> FALSE, exc |-> Exc("ValueError", "Rate limited by geocoding provider"),
          data |-> JsonNull]
    ELSE IF resp.status >= 400
    THEN [ok |-> FALSE, exc |-> Exc("HTTPStatusError", ""), data |-> JsonNull]
    ELSE IF resp.body.kind = "invalid" \/ (resp.body.kind = "list" /\ resp.body.items = <<>>)
    THEN [ok |-> FALSE, exc |-> Exc("JSONDecodeError", ""), data |-> JsonNull]
    ELSE [ok |-> TRUE, exc |-> Exc("", ""), data |-> resp.body]

HttpAttempt(resp) ==
    IF resp.status = 0 THEN [ok |-> FALSE, exc |-> Exc("TransportError", ""), data |-> JsonNull]
    ELSE IF resp.status = 429
    THEN [ok |-> FALSE, exc |-> Exc("ValueError", "Rate limited by geocoding provider"),
          data |-> JsonNull]
    ELSE IF resp.status >= 400
    THEN [ok |-> FALSE, exc |-> Exc("HTTPStatusError", ""), data |-> JsonNull]
    ELSE IF resp.body.kind = "invalid"
    THEN [ok |-> FALSE, exc |-> Exc("JSONDecodeError", ""), data |-> JsonNull]
    ELSE [ok |-> TRUE, exc |-> Exc("", ""), data |-> resp.body]

GEO_ATTEMPTS == 3

GEO_BACKOFF_MS == 500

GeoInit ==
    /\ g_pc = "idle"
    /\ g_query = <<>>
    /\ g_key = <<>>
    /\ g_stage = 0
    /\ g_attempt = 0
    /\ g_backoff = 0
    /\ g_last_exc = None
    /\ g_out = NoOutcome
    /\ g_lookups = <<>>

\* One call of _perform_request, recorded: its query, the requests it sent,
\* the sleeps it took and how it ended.
GeoLookup(query) ==
    [query |-> query, requests |-> 1, resps |-> <<>>, sleeps |-> <<>>, out |-> NoOutcome]

\* What the log keeps of a response to the call on the query itself: its
\* status, the kind of its body and the length of a list body.
GeoSeen(resp) ==
    [status |-> resp.status, kind |-> resp.body.kind, n |-> Len(resp.body.items)]

\* geocode_place once a _perform_request call has ended with `out`; stage 0
\* is the call on the query itself, stage i the call on the i-th alias.
\* Gives the next call to make, or the outcome of geocode_place.
AfterLookupStaticFirst(stage, key, out) ==
    LET aliases == AliasMapGet(key)
        static  == StaticResult(key)
    IN  IF out.kind = "return" /\ out.val # <<>>
        THEN [next |-> "done", out |-> out, query |-> <<>>]
        ELSE IF out.kind = "raise" /\ out.val.type # "ValueError"
        THEN [next |-> "done", out |-> out, query |-> <<>>]
        ELSE IF ~IsNone(static)
        THEN [next |-> "done", out |-> Return(<<Val(static)>>), query |-> <<>>]
        ELSE IF stage < Len(aliases)
        THEN [next |-> "lookup", out |-> NoOutcome, query |-> aliases[stage + 1]]
        ELSE [next |-> "done", out |-> Raise(NotFound), query |-> <<>>]

AfterLookup(stage, key, out) ==
    LET aliases == AliasMapGet(key)
        static  == StaticResult(key)
    IN  IF stage = 0 /\ out.kind = "return"
        THEN [next |-> "done", out |-> out, query |-> <<>>]
        ELSE IF stage > 0 /\ out.kind = "return" /\ out.val # <<>>
        THEN [next |-> "done", out |-> out, query |-> <<>>]
        ELSE IF out.kind = "raise" /\ out.val.type # "ValueError"
        THEN [next |-> "done", out |-> out, query |-> <<>>]
        ELSE IF stage < Len(aliases)
        THEN [next |-> "lookup", out |-> NoOutcome, query |-> aliases[stage + 1]]
        ELSE IF ~IsNone(static)
        THEN [next |-> "done", out |-> Return(<<Val(static)>>), query |-> <<>>]
        ELSE IF stage = 0
        THEN [next |-> "done", out |-> out, query |-> <<>>]   \* raise original_err
        ELSE [next |-> "done", out |-> Raise(NotFound), query |-> <<>>]

\* A _perform_request call has ended with `out`: carry on in geocode_place up
\* to its return, its raise, or the first request of the next call.
GeoLookupDone(out, log) ==
    LET logged == [log EXCEPT ![Len(log)].out = out]
        step   == AfterLookup(g_stage, g_key, out)
    IN  /\ g_last_exc' = None
        /\ IF step.next = "lookup"
           THEN /\ g_pc' = "requesting"
                /\ g_stage' = g_stage + 1
                /\ g_attempt' = 1
                /\ g_backoff' = GEO_BACKOFF_MS
                /\ g_out' = g_out
                /\ g_lookups' = Append(logged, GeoLookup(step.query))
           ELSE /\ g_pc' = IF step.out.kind = "return" THEN "returned" ELSE "raised"
                /\ g_out' = step.out
                /\ g_lookups' = logged
                /\ UNCHANGED <<g_stage, g_attempt, g_backoff>>

\* geocode_place(query) up to the first request (or the empty-query error).
GeocodeCall(query) ==
    /\ g_pc = "idle"
    /\ g_query' = query
    /\ g_key' = GeoKey(query)
    /\ g_stage' = 0
    /\ g_last_exc' = None
    /\ IF GeoKey(query) = <<>>
       THEN /\ g_pc' = "raised"
            /\ g_out' = Raise(Exc("ValueError", "Empty geocode query"))
            /\ g_lookups' = <<>>
            /\ UNCHANGED <<g_attempt, g_backoff>>
       ELSE /\ g_pc' = "requesting"
            /\ g_out' = NoOutcome
            /\ g_attempt' = 1
            /\ g_backoff' = GEO_BACKOFF_MS
            /\ g_lookups' = <<GeoLookup(query)>>

\* `await client.get(...)` is over: the rest of the loop body, and after the
\* last attempt or a success the rest of _perform_request and geocode_place.
GeoHttpDone(resp) ==
    /\ g_pc = "requesting"
    /\ LET a   == HttpAttempt(resp)
           log == IF g_stage = 0
                  THEN [g_lookups EXCEPT ![1].resps = Append(@, GeoSeen(resp))]
                  ELSE g_lookups
       IN
       IF a.ok
       THEN GeoLookupDone(ParseResponse(a.data), log)
       ELSE IF g_attempt < GEO_ATTEMPTS
       THEN /\ g_pc' = "sleeping"
            /\ g_last_exc' = Some(a.exc)
            /\ g_backoff' = g_backoff * 2
            /\ g_lookups' = [log EXCEPT ![Len(log)].sleeps = Append(@, g_backoff)]
            /\ UNCHANGED <<g_stage, g_attempt, g_out>>
       ELSE GeoLookupDone(ParseResponse(JsonNull), log)
    /\ UNCHANGED <<g_query, g_key>>

\* `await asyncio.sleep(backoff)` is over: the next attempt.
GeoSleepDone ==
    /\ g_pc = "sleeping"
    /\ g_pc' = "requesting"
    /\ g_attempt' = g_attempt + 1
    /\ g_lookups' = [g_lookups EXCEPT ![Len(g_lookups)].requests = @ + 1]
    /\ UNCHANGED <<g_query, g_key, g_stage, g_backoff, g_last_exc, g_out>>

(***************************************************************************)
(* services/open_meteo.py: _extract_precip_probability                     *)
(*                                                                         *)
(* A JSON value is a record of its kind with its number (tenths for a      *)
(* float) or its text; a JSON member is "missing", a "list" of values or   *)
(* something "other" than a list.                                          *)
(***************************************************************************)
JsonValue(kind, num, text) == [kind |-> kind, num |-> num, text |-> text]

JsonMember(kind, items) == [kind |-> kind, items |-> items]

\* int(val) for a value that is not None: the outcome of the conversion.
IntOf(val) ==
    IF val.kind = "int" THEN Return(Some(val.num))
    ELSE IF val.kind = "float"
    THEN Return(Some(IF val.num >= 0 THEN val.num \div 10 ELSE -((-val.num) \div 10)))
    ELSE IF val.kind = "inf" THEN Raise(Exc("OverflowError", "cannot convert float infinity to integer"))
    ELSE IF val.kind = "str" /\ val.text # <<>>
            /\ \A i \in 1..Len(val.text) : val.text[i] \in Range(Digits)
    THEN Return(Some(DecimalValue(val.text)))
    ELSE Return(None)

\* times.index(current_time): the first index that holds it, 0 for ValueError.
ListIndexLast(times, current_time) ==
    IF \E i \in 1..Len(times) : times[i] = current_time
    THEN CHOOSE i \in 1..Len(times) :
             times[i] = current_time /\ \A j \in (i + 1)..Len(times) : times[j] # current_time
    ELSE 0

ListIndex(times, current_time) ==
    IF \E i \in 1..Len(times) : times[i] = current_time
    THEN CHOOSE i \in 1..Len(times) :
             times[i] = current_time /\ \A j \in 1..(i - 1) : times[j] # current_time
    ELSE 0

\* _extract_precip_probability(data); data.current is None when
\* data["current_weather"]["time"] raises KeyError or TypeError.
ExtractPrecipProbability(data) ==
    IF IsNone(data.current) \/ data.times.kind = "missing" \/ data.probs.kind = "missing"
    THEN Return(None)
    ELSE IF data.times.kind # "list" \/ data.probs.kind # "list" THEN Return(None)
    ELSE LET idx == ListIndex(data.times.items, Val(data.current)) IN
         IF idx = 0 THEN Return(None)
         ELSE IF idx > Len(data.probs.items) THEN Return(None)
         ELSE LET val == data.probs.items[idx] IN
              IF val.kind = "null" THEN Return(None) ELSE IntOf(val)

MeteoInit ==
    /\ wp_data = <<>>
    /\ wp_out = NoOutcome

OverpassInit ==
    /\ ov_data = <<>>
    /\ ov_limit = 0
    /\ ov_out = NoOutcome

(***************************************************************************)
(* services/open_meteo.py: _weather_summary and the forecast extraction of *)
(* fetch_open_meteo.  A JSON value is a JsonValue; a member of an object   *)
(* is a JsonMember of kind "list", "missing" (no such key) or "other" (a   *)
(* number, which has neither len() nor .get).                              *)
(***************************************************************************)
WEATHER_CODE_MAP ==
    (0 :> "Clear") @@
    (1 :> "Mainly Clear") @@
    (2 :> "Partly Cloudy") @@
    (3 :> "Overcast") @@
    (45 :> "Fog") @@
    (48 :> "Depositing Rime Fog") @@
    (51 :> "Light Drizzle") @@
    (53 :> "Moderate Drizzle") @@
    (55 :> "Dense Drizzle") @@
    (56 :> "Light Freezing Drizzle") @@
    (57 :> "Dense Freezing Drizzle") @@
    (61 :> "Slight Rain") @@
    (63 :> "Moderate Rain") @@
    (65 :> "Heavy Rain") @@
    (66 :> "Light Freezing Rain") @@
    (67 :> "Heavy Freezing Rain") @@
    (71 :> "Slight Snowfall") @@
    (73 :> "Moderate Snowfall") @@
    (75 :> "Heavy Snowfall") @@
    (77 :> "Snow Grains") @@
    (80 :> "Slight Rain Showers") @@
    (81 :> "Moderate Rain Showers") @@
    (82 :> "Violent Rain Showers") @@
    (85 :> "Slight Snow Showers") @@
    (86 :> "Heavy Snow Showers") @@
    (95 :> "Thunderstorm") @@
    (96 :> "Thunderstorm With Slight Hail") @@
    (99 :> "Thunderstorm With Heavy Hail")

FORECAST_DAYS == 7

\* int(val): the outcome of the conversion.
PyInt(val) ==
    IF val.kind = "int" THEN Return(val.num)
    ELSE IF val.kind = "float"
    THEN Return(IF val.num >= 0 THEN val.num \div 10 ELSE -((-val.num) \div 10))
    ELSE IF val.kind = "inf"
    THEN Raise(Exc("OverflowError", "cannot convert float infinity to integer"))
    ELSE IF val.kind = "str"
    THEN IF val.text # <<>> /\ \A i \in 1..Len(val.text) : val.text[i] \in Range(Digits)
         THEN Return(DecimalValue(val.text))
         ELSE Raise(Exc("ValueError", "invalid literal for int()"))
    ELSE Raise(Exc("TypeError", "int() argument must be a string or a number"))

\* WEATHER_CODE_MAP.get(code, default)
WeatherCodeLabel(code, default) ==
    IF code \in DOMAIN WEATHER_CODE_MAP THEN Some(WEATHER_CODE_MAP[code]) ELSE default

\* _weather_summary(data); `code` is data["current_weather"]["weathercode"],
\* of kind "missing" when that raises KeyError or TypeError.
WeatherSummary(code) ==
    IF code.kind = "missing" THEN Return(None)
    ELSE LET r == PyInt(code) IN
         IF r.kind = "return" THEN Return(WeatherCodeLabel(r.val, None))
         ELSE IF r.val.type \in {"TypeError", "ValueError"} THEN Return(None)
         ELSE r

\* daily_data.get(name, []) followed by `xs[i] if i < len(xs) else None`,
\* for the i-th entry counted from 1: a JSON null is None.
FieldAt(member, i) ==
    IF member.kind = "missing" THEN Return(None)
    ELSE IF member.kind # "list"
    THEN Raise(Exc("TypeError", "object has no len()"))
    ELSE IF i <= Len(member.items) /\ member.items[i].kind # "null"
    THEN Return(Some(member.items[i]))
    ELSE Return(None)

\* The "summary" of the i-th forecast entry.
ForecastSummaryNoPlaceholder(weather_codes, i) ==
    LET code == FieldAt(weather_codes, i) IN
    IF code.kind = "raise" \/ IsNone(code.val) THEN code
    ELSE LET r == PyInt(Val(code.val)) IN
         IF r.kind = "raise" THEN r
         ELSE Return(WeatherCodeLabel(r.val, None))

ForecastSummary(weather_codes, i) ==
    LET code == FieldAt(weather_codes, i) IN
    IF code.kind = "raise" \/ IsNone(code.val) THEN code
    ELSE LET r == PyInt(Val(code.val)) IN
         IF r.kind = "raise" THEN r
         ELSE Return(WeatherCodeLabel(r.val, Some("Unknown")))

\* The dict literal appended for the i-th day: its values are computed in
\* the order they are written, and the first exception leaves the literal.
ForecastEntry(daily, i) ==
    LET temp_max == FieldAt(daily.max_temps, i)
        temp_min == FieldAt(daily.min_temps, i)
        precip   == FieldAt(daily.precip_probs, i)
        summary  == ForecastSummary(daily.weather_codes, i)
    IN  IF temp_max.kind = "raise" THEN temp_max
        ELSE IF temp_min.kind = "raise" THEN temp_min
        ELSE IF precip.kind = "raise" THEN precip
        ELSE IF summary.kind = "raise" THEN summary
        ELSE Return([date |-> daily.times.items[i],
                     temp_max |-> temp_max.val,
                     temp_min |-> temp_min.val,
                     precipitation_probability |-> precip.val,
                     summary |-> summary.val])

\* `for i in range(min(7, len(times)))` inside `try ... except Exception`:
\* an exception ends the loop and keeps what was appended before it.
RECURSIVE ForecastLoop(_, _, _, _)
ForecastLoop(daily, i, n, forecast) ==
    IF i > n THEN forecast
    ELSE LET entry == ForecastEntry(daily, i) IN
         IF entry.kind = "raise" THEN forecast
         ELSE ForecastLoop(daily, i + 1, n, Append(forecast, entry.val))

\* The forecast list of fetch_open_meteo; daily.kind is "object", "missing"
\* (data has no "daily": the default {}) or "other" (not an object: the
\* .get raises inside the try).
ExtractForecast(daily) ==
    IF daily.kind = "missing" \/ daily.kind = "other" THEN <<>>
    ELSE IF daily.times.kind = "missing" THEN <<>>
    ELSE IF daily.times.kind # "list" THEN <<>>
    ELSE ForecastLoop(daily, 1, Min(FORECAST_DAYS, Len(daily.times.items)), <<>>)

\* fetch_open_meteo from `summary = _weather_summary(data)` to its return:
\* the summary and the forecast of the result.
SummaryAndForecast(data) ==
    LET summary  == WeatherSummary(data.weathercode)
        forecast == ExtractForecast(data.daily)
    IN  IF summary.kind = "raise" THEN summary
        ELSE Return([summary |-> summary.val,
                     forecast |-> IF forecast # <<>> THEN Some(forecast) ELSE None])

ForecastInit ==
    /\ fc_data = <<>>
    /\ fc_out = NoOutcome

(***************************************************************************)
(* middleware/rate_limit.py: RateLimitMiddleware.dispatch                  *)
(*                                                                         *)
(* _request_log is a defaultdict: an address that was never seen has the   *)
(* empty list.  Times are whole seconds.  dispatch runs without            *)
(* suspending up to `await call_next(request)`; the model lets one         *)
(* rate-limited request at a time wait there.  rl_forwarded keeps, for     *)
(* each address, the times of the rate-limited requests that were handed   *)
(* to call_next, and rl_last the request dispatched last (without its      *)
(* client when the path is /health: dispatch does not read it then).       *)
(***************************************************************************)
RATE_LIMIT_REQUESTS == 30

RATE_LIMIT_WINDOW == 60

ClientIps == {"a", "unknown"}

\* request.client.host if request.client else "unknown"
ClientIp(client) == IF IsNone(client) THEN "unknown" ELSE Val(client)

\* `current_time - ts < RATE_LIMIT_WINDOW`
InWindowInclusive(current_time, ts) == current_time - ts <= RATE_LIMIT_WINDOW

InWindow(current_time, ts) == current_time - ts < RATE_LIMIT_WINDOW

\* [ts for ts in _request_log[client_ip] if current_time - ts < RATE_LIMIT_WINDOW]
CleanOld(log, current_time) == SelectSeq(log, LAMBDA ts : InWindow(current_time, ts))

\* `len(_request_log[client_ip]) >= RATE_LIMIT_REQUESTS`
LimitExceeded(log) == Len(log) >= RATE_LIMIT_REQUESTS

Dispatched(path, client, outcome) == [path |-> path, client |-> client, outcome |-> outcome]

RateLimitInit ==
    /\ rl_request_log = [ip \in ClientIps |-> <<>>]
    /\ rl_now = 0
    /\ rl_pending = None
    /\ rl_headers = None
    /\ rl_last = None
    /\ rl_forwarded = [ip \in ClientIps |-> <<>>]

\* dispatch(request, call_next) up to `await call_next(request)`, or to the
\* HTTPException that answers the request with 429.
Dispatch(path, client) ==
    IF path = "/health"
    THEN /\ rl_last' = Some(Dispatched(path, None, "forwarded"))
         /\ UNCHANGED <<rl_request_log, rl_pending, rl_forwarded>>
    ELSE LET client_ip    == ClientIp(client)
             current_time == rl_now
             cleaned      == CleanOld(rl_request_log[client_ip], current_time)
         IN  IF LimitExceeded(cleaned)
             THEN /\ rl_request_log' = [rl_request_log EXCEPT ![client_ip] = cleaned]
                  /\ rl_last' = Some(Dispatched(path, client, "rejected"))
                  /\ UNCHANGED <<rl_pending, rl_forwarded>>
             ELSE /\ rl_pending = None
                  /\ rl_request_log' =
                         [rl_request_log EXCEPT ![client_ip] = Append(cleaned, current_time)]
                  /\ rl_pending' = Some([client_ip |-> client_ip, current_time |-> current_time])
                  /\ rl_forwarded' =
                         [rl_forwarded EXCEPT ![client_ip] = Append(@, current_time)]
                  /\ rl_last' = Some(Dispatched(path, client, "forwarded"))

\* call_next has returned: the rate limit headers of the response.
DispatchResume ==
    /\ ~IsNone(rl_pending)
    /\ LET req == Val(rl_pending)
           remaining == RATE_LIMIT_REQUESTS - Len(rl_request_log[req.client_ip])
       IN  rl_headers' = Some([limit |-> RATE_LIMIT_REQUESTS, remaining |-> remaining,
                               reset |-> req.current_time + RATE_LIMIT_WINDOW])
    /\ rl_pending' = None
    /\ UNCHANGED <<rl_request_log, rl_now, rl_last, rl_forwarded>>

(***************************************************************************)
(* services/overpass.py: parse_overpass_elements                           *)
(*                                                                         *)
(* An element is its tags (None when the element has no or empty tags;     *)
(* inside, None is a key that is not there) and where its coordinates are: *)
(* on the element itself ("node"), under "center", or nowhere.             *)
(***************************************************************************)
OverpassTags(name, name_en, tourism, leisure, historic) ==
    [name |-> name, name_en |-> name_en, tourism |-> tourism, leisure |-> leisure,
     historic |-> historic]

OverpassElement(tags, at, lat, lon) == [tags |-> tags, at |-> at, lat |-> lat, lon |-> lon]

OverpassPoi(name, category, lat, lon) ==
    [name |-> name, category |-> category, lat |-> lat, lon |-> lon]

\* `tags.get("name") or tags.get("name:en")`
ElementNamePreferEn(tags) == IF Truthy(tags.name_en) THEN tags.name_en ELSE tags.name

ElementName(tags) == IF Truthy(tags.name) THEN tags.name ELSE tags.name_en

\* The first of tourism, leisure, historic that is a key of tags, with its value.
ElementCategory(tags) ==
    IF ~IsNone(tags.tourism) THEN Some(<<"tourism", Val(tags.tourism)>>)
    ELSE IF ~IsNone(tags.leisure) THEN Some(<<"leisure", Val(tags.leisure)>>)
    ELSE IF ~IsNone(tags.historic) THEN Some(<<"historic", Val(tags.historic)>>)
    ELSE None

\* lat_val, lon_val: both floats, or both None when there are no coordinates
\* or one of them does not parse.
ElementCoords(el) ==
    LET lat == ParseFloat(el.lat)
        lon == ParseFloat(el.lon)
    IN  IF el.at = "none" \/ IsNone(lat) \/ IsNone(lon)
        THEN [lat |-> None, lon |-> None]
        ELSE [lat |-> lat, lon |-> lon]

\* `if name in seen_names: continue`
AlreadySeenNever(name, seen_names) == FALSE

AlreadySeen(name, seen_names) == name \in seen_names

\* The loop over the elements.
RECURSIVE ParseElements(_, _, _, _)
ParseElements(elements, limit, results, seen_names) ==
    IF elements = <<>> THEN results
    ELSE LET el == Head(elements) IN
         IF IsNone(el.tags) THEN ParseElements(Tail(elements), limit, results, seen_names)
         ELSE LET name == ElementName(Val(el.tags)) IN
              IF ~Truthy(name) THEN ParseElements(Tail(elements), limit, results, seen_names)
              ELSE IF AlreadySeen(name, seen_names)
              THEN ParseElements(Tail(elements), limit, results, seen_names)
              ELSE LET c    == ElementCoords(el)
                       more == Append(results,
                                   OverpassPoi(name, ElementCategory(Val(el.tags)), c.lat, c.lon))
                   IN IF Len(more) >= limit THEN more
                      ELSE ParseElements(Tail(elements), limit, more, seen_names \cup {name})

\* parse_overpass_elements(data, limit)
ParseOverpassElements(elements, limit) == ParseElements(elements, limit, <<>>, {})

(***************************************************************************)
(* agents/parent_agent.py: orchestrate and its two child tasks             *)
(*                                                                         *)
(* The weather task is _run_weather around fetch_weather, which is         *)
(* fetch_open_meteo under async_retry(3, 0.5): the retry machine above.    *)
(* The places task is _run_places around fetch_places: the places machine  *)
(* above.  A weather snapshot keeps the fields orchestrate reads           *)
(* (temperature, in tenths of a degree, and precipitation_probability);    *)
(* summary and forecast are carried along untouched.  A text is the        *)
(* sequence of its sentences, an error string a message with its argument. *)
(***************************************************************************)
WEATHER_RETRIES == 3

WEATHER_BACKOFF_MS == 500

Err(msg, arg) == [msg |-> msg, arg |-> arg]

Sentence(kind, temp, precip, names) ==
    [kind |-> kind, temp |-> temp, precip |-> precip, names |-> names]

WeatherSnapshot(temperature, precipitation_probability) ==
    [temperature |-> temperature,
     precipitation_probability |-> precipitation_probability,
     error |-> None]

\* {"error": "Weather service temporarily unavailable"}
WeatherErrorBlockGeneric ==
    [temperature |-> None, precipitation_probability |-> None,
     error |-> Some("Weather service unavailable")]

WeatherErrorBlock ==
    [temperature |-> None, precipitation_probability |-> None,
     error |-> Some("Weather service temporarily unavailable")]

\* `not place_candidate or not place_candidate.strip()`
BlankNoStrip(place_candidate) ==
    \/ IsNone(place_candidate)
    \/ Val(place_candidate) = <<>>

Blank(place_candidate) ==
    \/ IsNone(place_candidate)
    \/ Val(place_candidate) = <<>>
    \/ Strip(Val(place_candidate)) = <<>>

OrchResult(place, lat, lon, geocode_source, weather, places, places_geo, text, errors) ==
    [place |-> place, lat |-> lat, lon |-> lon, geocode_source |-> geocode_source,
     weather |-> weather, places |-> places, places_geo |-> places_geo,
     text |-> text, errors |-> errors]

NoDestinationResult ==
    OrchResult(None, None, None, None, None, None, None,
               <<Sentence("no_destination", None, None, <<>>)>>,
               Some(<<Err("No destination specified", None)>>))

NotFoundResultNoPlace(place_candidate) ==
    OrchResult(None, None, None, None, None, None, None,
               <<Sentence("not_found", None, None, <<place_candidate>>)>>,
               Some(<<Err("Location not found", None)>>))

NotFoundResult(place_candidate) ==
    OrchResult(place_candidate, None, None, None, None, None, None,
               <<Sentence("not_found", None, None, <<place_candidate>>)>>,
               Some(<<Err("Location not found", place_candidate)>>))

\* _resolve_place once geocode_place has ended with `out`.
ResolvePlaceValueErrorOnly(out) ==
    IF out.kind = "return"
    THEN Return(IF out.val # <<>> THEN Some(out.val[1]) ELSE None)
    ELSE IF out.val.type = "ValueError" THEN Return(None)
    ELSE out

ResolvePlace(out) ==
    IF out.kind = "return"
    THEN Return(IF out.val # <<>> THEN Some(out.val[1]) ELSE None)
    ELSE Return(None)

\* _run_weather once fetch_weather has ended with `out`.
RunWeatherNoCatch(out) == out

RunWeather(out) ==
    IF out.kind = "return" THEN out ELSE Return(WeatherErrorBlock)

\* _run_places once fetch_places has ended with `out`.
RunPlaces(out) ==
    IF out.kind = "return" THEN out ELSE Return(<<>>)

\* The tasks orchestrate creates.
TasksForAll(want) == {"weather", "places"}

TasksFor(want) == {t \in {"weather", "places"} : t \in Range(want)}

\* `await asyncio.gather(*tasks.values(), return_exceptions=True)` resumes
\* once every task it was given is done.
GatherDoneOnFirst(tasks, done) == tasks = {} \/ \E t \in tasks : done[t]

GatherDone(tasks, done) == \A t \in tasks : done[t]

\* tasks[name].result(): what the task returned or raised; on a task that
\* is not done, InvalidStateError.
TaskResultFailFast(task, name) ==
    IF ~task[name].done THEN Raise(Exc("InvalidStateError", "Result is not set."))
    ELSE IF /\ name = "places"
            /\ "weather" \in DOMAIN task
            /\ task["weather"].out.kind = "return"
            /\ ~IsNone(task["weather"].out.val.error)
    THEN Return(<<>>)
    ELSE task[name].out

TaskResult(task, name) ==
    IF ~task[name].done THEN Raise(Exc("InvalidStateError", "Result is not set."))
    ELSE task[name].out

\* f"{temp:.0f}" for a temperature in tenths: round half to even.
RoundHalfEven(tenths) ==
    LET q == tenths \div 10
        r == tenths % 10
    IN  IF r < 5 THEN q
        ELSE IF r > 5 THEN q + 1
        ELSE IF q % 2 = 0 THEN q ELSE q + 1

\* [p.get("name") for p in raw_places]
PlacesBlock(raw_places) == [i \in 1..Len(raw_places) |-> raw_places[i].name]

\* The weather part of the summary: the sentences and the errors it adds.
WeatherPartTruthy(weather_block, want) ==
    IF ~IsNone(weather_block)
    THEN LET w == Val(weather_block)
             temp   == ~IsNone(w.temperature) /\ Val(w.temperature) # 0
             precip == ~IsNone(w.precipitation_probability)
                       /\ Val(w.precipitation_probability) # 0
         IN
         IF ~IsNone(w.error) /\ Val(w.error) # ""
         THEN [parts |-> <<>>, errors |-> <<Err(Val(w.error), None)>>]
         ELSE IF temp /\ precip
         THEN [parts |-> <<Sentence("weather_full",
                                    Some(RoundHalfEven(Val(w.temperature))),
                                    w.precipitation_probability, <<>>)>>,
               errors |-> <<>>]
         ELSE IF temp
         THEN [parts |-> <<Sentence("weather_temperature",
                                    Some(RoundHalfEven(Val(w.temperature))),
                                    None, <<>>)>>,
               errors |-> <<>>]
         ELSE [parts |-> <<>>, errors |-> <<>>]
    ELSE IF "weather" \in Range(want)
    THEN [parts |-> <<>>, errors |-> <<Err("Weather service unavailable", None)>>]
    ELSE [parts |-> <<>>, errors |-> <<>>]

WeatherPart(weather_block, want) ==
    IF ~IsNone(weather_block)
    THEN LET w == Val(weather_block) IN
         IF ~IsNone(w.error) /\ Val(w.error) # ""
         THEN [parts |-> <<>>, errors |-> <<Err(Val(w.error), None)>>]
         ELSE IF ~IsNone(w.temperature) /\ ~IsNone(w.precipitation_probability)
         THEN [parts |-> <<Sentence("weather_full",
                                    Some(RoundHalfEven(Val(w.temperature))),
                                    w.precipitation_probability, <<>>)>>,
               errors |-> <<>>]
         ELSE IF ~IsNone(w.temperature)
         THEN [parts |-> <<Sentence("weather_temperature",
                                    Some(RoundHalfEven(Val(w.temperature))),
                                    None, <<>>)>>,
               errors |-> <<>>]
         ELSE [parts |-> <<>>, errors |-> <<>>]
    ELSE IF "weather" \in Range(want)
    THEN [parts |-> <<>>, errors |-> <<Err("Weather service unavailable", None)>>]
    ELSE [parts |-> <<>>, errors |-> <<>>]

\* ", ".join(places_block) on names that are all strings.
RECURSIVE JoinNames(_)
JoinNames(names) ==
    IF names = <<>> THEN <<>>
    ELSE IF Len(names) = 1 THEN Val(names[1])
    ELSE Val(names[1]) \o <<",", " ">> \o JoinNames(Tail(names))

\* The places part of the summary; ", ".join raises TypeError on a name
\* that is None.
PlacesPartErrorAlways(places_block, want) ==
    [raised |-> FALSE,
     parts |-> IF ~IsNone(places_block) /\ Val(places_block) # <<>>
               THEN <<Sentence("places", None, None, JoinNames(Val(places_block)))>>
               ELSE <<>>,
     errors |-> IF "places" \in Range(want)
                THEN <<Err("Places service unavailable", None)>> ELSE <<>>]

PlacesPart(places_block, want) ==
    IF ~IsNone(places_block) /\ Val(places_block) # <<>>
    THEN IF \E i \in 1..Len(Val(places_block)) : IsNone(Val(places_block)[i])
         THEN [raised |-> TRUE, parts |-> <<>>, errors |-> <<>>]
         ELSE [raised |-> FALSE,
               parts |-> <<Sentence("places", None, None, JoinNames(Val(places_block)))>>,
               errors |-> <<>>]
    ELSE IF "places" \in Range(want)
    THEN [raised |-> FALSE, parts |-> <<>>,
          errors |-> <<Err("Places service unavailable", None)>>]
    ELSE [raised |-> FALSE, parts |-> <<>>, errors |-> <<>>]

\* " ".join(summary_parts) if summary_parts else "No data available."
SummaryTextNoFallback(parts) == parts

SummaryText(parts) ==
    IF parts # <<>> THEN parts ELSE <<Sentence("no_data", None, None, <<>>)>>

\* `errors or None`
ErrorsOrNoneDropped(errors) == None

ErrorsOrNone(errors) == IF errors # <<>> THEN Some(errors) ELSE None

\* The summary parts and the errors, appended for weather, then for places.
CombineAsCompleted(wp, pp) ==
    IF o_done # <<>> /\ o_done[1] = "places"
    THEN [parts |-> pp.parts \o wp.parts, errors |-> pp.errors \o wp.errors]
    ELSE [parts |-> wp.parts \o pp.parts, errors |-> wp.errors \o pp.errors]

Combine(wp, pp) == [parts |-> wp.parts \o pp.parts, errors |-> wp.errors \o pp.errors]

\* orchestrate from the line after the gather to its return.
Compose(want, geocode, task) ==
    LET w_res == IF "weather" \in DOMAIN task THEN TaskResult(task, "weather")
                 ELSE Return(None)
        p_res == IF "places" \in DOMAIN task THEN TaskResult(task, "places")
                 ELSE Return(None)
    IN  IF w_res.kind = "raise" THEN w_res
        ELSE IF p_res.kind = "raise" THEN p_res
        ELSE
        LET weather_block == IF "weather" \in DOMAIN task THEN Some(w_res.val) ELSE None
            places_geo    == IF "places" \in DOMAIN task THEN Some(p_res.val) ELSE None
            places_block  == IF "places" \in DOMAIN task
                             THEN Some(PlacesBlock(p_res.val)) ELSE None
            wp     == WeatherPart(weather_block, want)
            pp     == PlacesPart(places_block, want)
            parts  == Combine(wp, pp).parts
            errors == Combine(wp, pp).errors
        IN  IF pp.raised
            THEN Raise(Exc("TypeError", "sequence item: expected str instance"))
            ELSE Return(OrchResult(Some(geocode.display_name), Some(geocode.lat),
                                   Some(geocode.lon), Some(geocode.source),
                                   weather_block, places_block, places_geo,
                                   SummaryText(parts), ErrorsOrNone(errors)))

OrchInit ==
    /\ o_pc = "idle"
    /\ o_place = None
    /\ o_want = <<>>
    /\ o_geo_out = NoOutcome
    /\ o_geocode = None
    /\ o_tasks = {}
    /\ o_out = NoOutcome
    /\ o_done = <<>>

\* The state of the created tasks, as the event loop has it.
TaskTable ==
    [t \in o_tasks |->
        IF t = "weather"
        THEN [done |-> rt_pc \in {"returned", "raised"}, out |-> RunWeather(rt_out)]
        ELSE [done |-> fp_pc = "returned", out |-> RunPlaces(fp_out)]]

\* orchestrate(place_candidate, want) up to its first await: the call of
\* geocode_place in _resolve_place, or the return on a blank candidate.
Orchestrate(place_candidate, want) ==
    /\ o_pc = "idle"
    /\ o_place' = place_candidate
    /\ o_want' = want
    /\ UNCHANGED <<o_geo_out, o_geocode, o_tasks, o_done>>
    /\ IF Blank(place_candidate)
       THEN /\ o_pc' = "returned"
            /\ o_out' = Return(NoDestinationResult)
            /\ UNCHANGED geoVars
       ELSE /\ o_pc' = "resolving"
            /\ o_out' = NoOutcome
            /\ GeocodeCall(Val(place_candidate))

\* `await geocode_place(candidate)` is over: the rest of _resolve_place,
\* then orchestrate up to the gather (or its return when nothing resolved).
\* o_geo_out records what geocode_place gave; its frame is gone.
OrchResolved ==
    /\ o_pc = "resolving"
    /\ g_pc \in {"returned", "raised"}
    /\ o_geo_out' = g_out
    /\ LET r == ResolvePlace(g_out) IN
       IF r.kind = "raise"
       THEN /\ o_pc' = "raised"
            /\ o_out' = r
            /\ UNCHANGED <<o_geocode, o_tasks>>
       ELSE IF IsNone(r.val)
       THEN /\ o_pc' = "returned"
            /\ o_out' = Return(NotFoundResult(o_place))
            /\ UNCHANGED <<o_geocode, o_tasks>>
       ELSE /\ o_pc' = "gathering"
            /\ o_geocode' = r.val
            /\ o_tasks' = TasksFor(o_want)
            /\ o_out' = o_out
    /\ g_pc' = "idle"
    /\ g_query' = <<>>
    /\ g_key' = <<>>
    /\ g_stage' = 0
    /\ g_attempt' = 0
    /\ g_backoff' = 0
    /\ g_last_exc' = None
    /\ g_out' = NoOutcome
    /\ g_lookups' = <<>>
    /\ UNCHANGED <<o_place, o_want, o_done>>

\* The weather task starts: _run_weather up to the first request of
\* fetch_open_meteo.
WeatherTaskStart ==
    /\ o_pc = "gathering"
    /\ "weather" \in o_tasks
    /\ RetryCall(WEATHER_RETRIES, WEATHER_BACKOFF_MS)

\* The places task starts: _run_places up to the first _fetch.
PlacesTaskStart ==
    /\ o_pc = "gathering"
    /\ "places" \in o_tasks
    /\ FetchPlacesCall(Some(<<Val(o_geocode).lat, Val(o_geocode).lon>>),
                       DEFAULT_RADIUS, POI_LIMIT)

\* A step of the task `name` is over; o_done keeps the order in which the
\* tasks of the gather finish.
TaskStep(name, done) ==
    /\ o_done' = IF done /\ name \notin Range(o_done) THEN Append(o_done, name) ELSE o_done
    /\ UNCHANGED orchFrame

\* The gather is over: orchestrate reads the results and returns.
OrchJoin ==
    /\ o_pc = "gathering"
    /\ GatherDone(o_tasks, [t \in o_tasks |-> TaskTable[t].done])
    /\ LET out == Compose(o_want, Val(o_geocode), TaskTable) IN
        /\ o_out' = out
        /\ o_pc' = IF out.kind = "return" THEN "returned" ELSE "raised"
    /\ UNCHANGED <<o_place, o_want, o_geo_out, o_geocode, o_tasks, o_done>>

(***************************************************************************)
(* agents/weather_agent.py: fetch_weather, the wrapper async_retry makes   *)
(* around one request of fetch_open_meteo.  No other decorator is applied. *)
(***************************************************************************)
FetchWeatherInit ==
    /\ fw_call = None
    /\ fw_now = 0
    /\ fw_hist = <<>>

\* fetch_weather(lat, lon) is called: the wrapper starts its loop and
\* issues the first request.
FetchWeatherCall(lat, lon) ==
    /\ fw_call = None
    /\ fw_call' = Some([lat |-> lat, lon |-> lon, at |-> fw_now])
    /\ RetryCall(WEATHER_RETRIES, WEATHER_BACKOFF_MS)
    /\ UNCHANGED <<fw_now, fw_hist>>

\* The call is over: its outcome goes to the caller and its frame is gone.
\* fw_hist records the call with the number of requests it issued.
FetchWeatherEnd ==
    /\ ~IsNone(fw_call)
    /\ RetryDone
    /\ fw_hist' = Append(fw_hist,
                         [lat |-> Val(fw_call).lat, lon |-> Val(fw_call).lon,
                          at |-> Val(fw_call).at, end |-> fw_now,
                          out |-> rt_out, requests |-> Len(rt_calls)])
    /\ fw_call' = None
    /\ fw_now' = fw_now
    /\ rt_pc' = "idle"
    /\ rt_retries' = 0
    /\ rt_backoff' = 0
    /\ rt_attempt' = 0
    /\ rt_last_exc' = None
    /\ rt_out' = NoOutcome
    /\ rt_invocations' = 0
    /\ rt_calls' = <<>>
    /\ rt_sleeps' = <<>>

(***************************************************************************)
(* Specifications.  Each one runs one component from its initial state and *)
(* leaves the state of the others alone.                                   *)
(***************************************************************************)
ParseInit ==
    /\ gp_data = <<>>
    /\ gp_out = NoOutcome

InitAll ==
    /\ RetryInit /\ PlacesInit /\ CacheInit /\ GeoInit /\ OrchInit
    /\ ParseInit /\ MeteoInit /\ OverpassInit /\ FetchWeatherInit /\ ForecastInit /\ RateLimitInit /\ FetchInit

exceptRate == <<retryVars, placesVars, cacheVars, geoVars, orchVars, pureVars, weatherVars,
    fetchVars>>

exceptRetry == <<placesVars, cacheVars, geoVars, sideVars, orchVars>>

exceptPlaces == <<retryVars, cacheVars, geoVars, sideVars, orchVars>>

exceptCache == <<retryVars, placesVars, geoVars, sideVars, orchVars>>

exceptGeo == <<retryVars, placesVars, cacheVars, sideVars, orchVars>>

exceptWeather == <<placesVars, cacheVars, geoVars, pureVars, orchVars, rateVars, fetchVars>>

exceptForecast == <<retryVars, placesVars, cacheVars, geoVars, orchVars, parseVars,
                    meteoVars, overpassVars, weatherVars, rateVars, fetchVars>>

exceptParse == <<retryVars, placesVars, cacheVars, geoVars, orchVars, meteoVars, overpassVars, weatherVars,
    forecastVars, rateVars, fetchVars>>

exceptMeteo == <<retryVars, placesVars, cacheVars, geoVars, orchVars, parseVars, overpassVars, weatherVars,
    forecastVars, rateVars, fetchVars>>

exceptOverpass == <<retryVars, placesVars, cacheVars, geoVars, orchVars, parseVars, meteoVars, weatherVars,
    forecastVars, rateVars, fetchVars>>

(***************************************************************************)
(* Specification of the parsing of one provider response                   *)
(***************************************************************************)
MaxItems == 5

NameA == <<"A">>

NameB == <<"B">>

NameC == <<"C">>

NameD == <<"D">>

\* The decimal string of a number below 100.
TwoDigits(n) == <<Digits[(n \div 10) + 1], Digits[(n % 10) + 1]>>

\* The items the provider may send at position i of its list: named items
\* with coordinates of their own, items with an unparseable or a missing
\* coordinate, items with a null or an empty name.
GeoItemsAt(i) ==
    LET lat == Some(TwoDigits(10 + i))
        lon == Some(TwoDigits(70 + i))
    IN  {GeoItem(Some(n), lat, lon) : n \in {NameA, NameB, NameC, NameD}} \cup
        {GeoItem(Some(NameA), Some(<<"x">>), lon),
         GeoItem(Some(NameB), lat, None),
         GeoItem(None, lat, lon),
         GeoItem(Some(<<>>), lat, lon)}

RECURSIVE GeoLists(_)
GeoLists(n) ==
    IF n = 0 THEN {<<>>}
    ELSE LET shorter == GeoLists(n - 1)
         IN shorter \cup {Append(s, x) : s \in {t \in shorter : Len(t) = n - 1},
                                        x \in GeoItemsAt(n)}

InitParse ==
    /\ RetryInit /\ PlacesInit /\ CacheInit /\ GeoInit /\ OrchInit
    /\ MeteoInit /\ OverpassInit /\ FetchWeatherInit /\ ForecastInit /\ RateLimitInit /\ FetchInit
    /\ gp_data \in GeoLists(MaxItems)
    /\ gp_out = NoOutcome

\* The provider answered 200 with the list gp_data: _perform_request from
\* `data = resp.json()` to its return or raise.
ParseApply ==
    /\ gp_out = NoOutcome
    /\ gp_out' = ParseResponse(JsonList(gp_data))
    /\ UNCHANGED <<gp_data, exceptParse>>

NextParse == ParseApply

SpecParse == InitParse /\ [][NextParse]_vars

(***************************************************************************)
(* Specification of the time alignment of one weather response             *)
(***************************************************************************)
MaxHourly == 3

HourlyTimes == {"t1", "t2"}

CurrentTimes == {None, Some("t1"), Some("t3")}

ProbValues ==
    {JsonValue("null", 0, <<>>), JsonValue("int", 35, <<>>), JsonValue("float", 357, <<>>),
     JsonValue("str", 0, <<"4", "0">>), JsonValue("str", 0, <<"x">>),
     JsonValue("inf", 0, <<>>)}

JsonMembers(S, n) ==
    {JsonMember("missing", <<>>), JsonMember("other", <<>>)} \cup
    {JsonMember("list", items) : items \in SeqsUpTo(S, n)}

InitMeteo ==
    /\ RetryInit /\ PlacesInit /\ CacheInit /\ GeoInit /\ OrchInit
    /\ ParseInit /\ OverpassInit /\ FetchWeatherInit /\ ForecastInit /\ RateLimitInit /\ FetchInit
    /\ wp_data \in [current : CurrentTimes,
                    times : JsonMembers(HourlyTimes, MaxHourly),
                    probs : JsonMembers(ProbValues, MaxHourly)]
    /\ wp_out = NoOutcome

\* fetch_open_meteo at `precipitation_probability = _extract_precip_probability(data)`
MeteoApply ==
    /\ wp_out = NoOutcome
    /\ wp_out' = ExtractPrecipProbability(wp_data)
    /\ UNCHANGED <<wp_data, exceptMeteo>>

NextMeteo == MeteoApply

SpecMeteo == InitMeteo /\ [][NextMeteo]_vars

(***************************************************************************)
(* Specification of the summary and forecast extraction on one response    *)
(***************************************************************************)
MaxDaily == 8

MaxCodes == 2

\* The dates of the first n days.
DailyTimes(n) == [i \in 1..n |-> JsonValue("str", 0, <<"d", Digits[i + 1]>>)]

CodeValues ==
    {JsonValue("int", 0, <<>>), JsonValue("int", 4, <<>>), JsonValue("str", 0, <<"x">>),
     JsonValue("null", 0, <<>>), JsonValue("float", 30, <<>>)}

CurrentCodes ==
    {JsonValue("missing", 0, <<>>), JsonValue("int", 0, <<>>), JsonValue("int", 4, <<>>),
     JsonValue("str", 0, <<"x">>), JsonValue("null", 0, <<>>), JsonValue("inf", 0, <<>>)}

MaxTempMembers ==
    {JsonMember("missing", <<>>), JsonMember("other", <<>>),
     JsonMember("list", <<JsonValue("float", 305, <<>>)>>),
     JsonMember("list", <<JsonValue("null", 0, <<>>), JsonValue("float", 305, <<>>)>>)}

\* temperature_2m_min and precipitation_probability_max, both there or not.
TailMembers ==
    {<<JsonMember("missing", <<>>), JsonMember("missing", <<>>)>>,
     <<JsonMember("list", <<JsonValue("float", 201, <<>>)>>),
       JsonMember("list", <<JsonValue("int", 60, <<>>)>>)>>}

DailyObjects ==
    {[kind |-> "object", times |-> t, max_temps |-> mx, min_temps |-> tail[1],
      precip_probs |-> tail[2], weather_codes |-> wc] :
        t \in {JsonMember("missing", <<>>), JsonMember("other", <<>>)} \cup
              {JsonMember("list", DailyTimes(n)) : n \in 0..MaxDaily},
        mx \in MaxTempMembers, tail \in TailMembers,
        wc \in JsonMembers(CodeValues, MaxCodes)}

NoDaily(kind) ==
    [kind |-> kind, times |-> JsonMember("missing", <<>>),
     max_temps |-> JsonMember("missing", <<>>), min_temps |-> JsonMember("missing", <<>>),
     precip_probs |-> JsonMember("missing", <<>>),
     weather_codes |-> JsonMember("missing", <<>>)]

InitForecast ==
    /\ RetryInit /\ PlacesInit /\ CacheInit /\ GeoInit /\ OrchInit
    /\ ParseInit /\ MeteoInit /\ OverpassInit /\ FetchWeatherInit /\ RateLimitInit /\ FetchInit
    /\ fc_data \in [weathercode : CurrentCodes,
                    daily : DailyObjects \cup {NoDaily("missing"), NoDaily("other")}]
    /\ fc_out = NoOutcome

\* fetch_open_meteo from line 142 to its return.
ForecastApply ==
    /\ fc_out = NoOutcome
    /\ fc_out' = SummaryAndForecast(fc_data)
    /\ UNCHANGED <<fc_data, exceptForecast>>

NextForecast == ForecastApply

SpecForecast == InitForecast /\ [][NextForecast]_vars

(***************************************************************************)
(* Specification of the rate limiter under requests of two addresses       *)
(***************************************************************************)
MaxUnknown == 1

\* The instants at which requests arrive.
RateInstants == <<0, 59, 60>>

RatePaths == {"/health", "/api/plan"}

RateClients == {Some("a"), None}

InitRateLimit == InitAll

RateRequest ==
    /\ \E path \in RatePaths, client \in RateClients :
           /\ (IsNone(client) /\ path # "/health")
              => Len(rl_forwarded["unknown"]) < MaxUnknown
           /\ Dispatch(path, client)
    /\ UNCHANGED <<rl_now, rl_headers, exceptRate>>

RateResume ==
    /\ DispatchResume
    /\ UNCHANGED exceptRate

\* time.time() moves on to the next instant.
RateTick ==
    /\ \E i \in 1..(Len(RateInstants) - 1) :
           /\ rl_now = RateInstants[i]
           /\ rl_now' = RateInstants[i + 1]
    /\ UNCHANGED <<rl_request_log, rl_pending, rl_headers, rl_last, rl_forwarded, exceptRate>>

NextRateLimit ==
    \/ RateRequest
    \/ RateResume
    \/ RateTick

SpecRateLimit == InitRateLimit /\ [][NextRateLimit]_vars



(***************************************************************************)
(* Specification of the parsing of one POI response                        *)
(***************************************************************************)
MaxElements == 4

\* The elements the provider may send at position i: each has coordinates
\* and category values of its own.
ElementsAt(i) ==
    LET lat == Some(TwoDigits(10 + i))
        lon == Some(TwoDigits(70 + i))
        v   == Some(Digits[i + 1])
    IN  {OverpassElement(Some(OverpassTags(Some(NameA), None, v, None, None)), "node", lat, lon),
         OverpassElement(Some(OverpassTags(Some(NameB), Some(NameC), None, v, None)), "center", lat, lon),
         OverpassElement(Some(OverpassTags(None, Some(NameA), None, None, v)), "none", None, None),
         OverpassElement(Some(OverpassTags(Some(<<>>), Some(NameC), None, None, None)), "node", lat, lon),
         OverpassElement(None, "node", lat, lon),
         OverpassElement(Some(OverpassTags(None, None, v, None, None)), "node", lat, lon),
         OverpassElement(Some(OverpassTags(Some(NameA), None, v, v, None)), "node", Some(<<"x">>), lon),
         OverpassElement(Some(OverpassTags(Some(NameD), None, None, None, None)), "center", lat, None)}

RECURSIVE ElementLists(_)
ElementLists(n) ==
    IF n = 0 THEN {<<>>}
    ELSE LET shorter == ElementLists(n - 1)
         IN shorter \cup {Append(s, x) : s \in {t \in shorter : Len(t) = n - 1},
                                        x \in ElementsAt(n)}

InitOverpass ==
    /\ RetryInit /\ PlacesInit /\ CacheInit /\ GeoInit /\ OrchInit
    /\ ParseInit /\ MeteoInit /\ FetchWeatherInit /\ ForecastInit /\ RateLimitInit /\ FetchInit
    /\ ov_data \in ElementLists(MaxElements)
    /\ ov_limit \in 0..MaxElements
    /\ ov_out = NoOutcome

\* fetch_pois at `return parse_overpass_elements(data, limit=limit)`
OverpassApply ==
    /\ ov_out = NoOutcome
    /\ ov_out' = Return(ParseOverpassElements(ov_data, ov_limit))
    /\ UNCHANGED <<ov_data, ov_limit, exceptOverpass>>

NextOverpass == OverpassApply

SpecOverpass == InitOverpass /\ [][NextOverpass]_vars

(***************************************************************************)
(* Specification of one call of the body of geocode_place                  *)
(***************************************************************************)
GeoQueries ==
    {<<" ", "G", "o", "a">>,
     <<"b", "o", "m", "b", "a", "y">>,
     <<"D", "e", "l", "h", "i", " ">>,
     <<"B", "a", "n", "g", "a", "l", "o", "r", "e">>,
     <<"O", "z">>,
     <<" ", " ">>}

GeoListOne == <<GeoItem(Some(NameA), Some(<<"1", "2">>), Some(<<"7", "7">>))>>

GeoListTwo == <<GeoItem(Some(NameB), Some(<<"1", "3">>), Some(<<"7", "8">>)),
                GeoItem(Some(NameA), Some(<<"1", "2">>), Some(<<"7", "7">>))>>

GeoListNameless == <<GeoItem(None, Some(<<"1", "2">>), Some(<<"7", "7">>))>>

GeoListScalar == <<GeoScalarItem>>

HttpResponses ==
    {HttpResponse(0, NotJson), HttpResponse(429, NotJson), HttpResponse(500, NotJson),
     HttpResponse(200, NotJson), HttpResponse(200, JsonObject),
     HttpResponse(200, JsonNull), HttpResponse(200, JsonList(<<>>)),
     HttpResponse(200, JsonList(GeoListOne)), HttpResponse(200, JsonList(GeoListTwo)),
     HttpResponse(200, JsonList(GeoListNameless)),
     HttpResponse(200, JsonList(GeoListScalar))}

InitGeo == InitAll

GeoStart ==
    /\ \E query \in GeoQueries : GeocodeCall(query)
    /\ UNCHANGED exceptGeo

GeoResponse ==
    /\ \E resp \in HttpResponses : GeoHttpDone(resp)
    /\ UNCHANGED exceptGeo

GeoWake ==
    /\ GeoSleepDone
    /\ UNCHANGED exceptGeo

NextGeo ==
    \/ GeoStart
    \/ GeoResponse
    \/ GeoWake

SpecGeo == InitGeo /\ [][NextGeo]_vars

(***************************************************************************)
(* Specification of the cache under concurrent callers                     *)
(***************************************************************************)
InitCache == InitAll

CacheStart ==
    /\ Len(c_hist) + Cardinality(InFlight) < MaxLookups
    /\ \E p \in Callers, key \in CacheKeys : CacheLookup(p, key, TtlSeconds)
    /\ UNCHANGED exceptCache

CacheOk ==
    /\ \E p \in Callers, v \in CacheValues : CacheFuncReturn(p, TtlSeconds, v)
    /\ UNCHANGED exceptCache

CacheFail ==
    /\ \E p \in Callers, e \in CacheErrors : CacheFuncRaise(p, e)
    /\ UNCHANGED exceptCache

CacheTick ==
    /\ ClockTick
    /\ UNCHANGED exceptCache

NextCache ==
    \/ CacheStart
    \/ CacheOk
    \/ CacheFail
    \/ CacheTick

SpecCache == InitCache /\ [][NextCache]_vars

(***************************************************************************)
(* Specification of one call of fetch_places                               *)
(***************************************************************************)
MaxLimit == 2

MaxRaw == 2

PlaceNames == {None, Some(<<"a">>), Some(<<"b">>)}

PlaceCategories == {"leisure:park", "tourism:attraction"}

\* What one raw fetch may hand back: any list of POI dicts.
PoiUniverse ==
    {Poi(None, "leisure:park")} \cup
    {Poi(n, c) : n \in PlaceNames \ {None}, c \in PlaceCategories}

RawOutcomes == {Raise("Exception")} \cup {Return(ps) : ps \in SeqsUpTo(PoiUniverse, MaxRaw)}

PlacesCoords == Some(<<12, 77>>)

InitPlaces == InitAll

PlacesStart ==
    /\ \E radius \in {1, DEFAULT_RADIUS}, limit \in 0..MaxLimit :
           FetchPlacesCall(PlacesCoords, radius, limit)
    /\ UNCHANGED exceptPlaces

PlacesRawDone ==
    /\ \E out \in RawOutcomes : RawFetchDone(out)
    /\ UNCHANGED exceptPlaces

NextPlaces ==
    \/ PlacesStart
    \/ PlacesRawDone

SpecPlaces == InitPlaces /\ [][NextPlaces]_vars

(***************************************************************************)
(* Specification of one call of a retried operation                        *)
(***************************************************************************)
InitRetry == InitAll

RetryStart ==
    /\ \E n \in 0..MaxRetries, b \in RetryBackoffs : RetryCall(n, b)
    /\ UNCHANGED exceptRetry

RetryOk ==
    /\ \E v \in RetryValues : RetryFuncReturn(v)
    /\ UNCHANGED exceptRetry

RetryFail ==
    /\ \E e \in RetryErrors : RetryFuncRaise(e)
    /\ UNCHANGED exceptRetry

RetryWake ==
    /\ RetrySleepDone
    /\ UNCHANGED exceptRetry

NextRetry ==
    \/ RetryStart
    \/ RetryOk
    \/ RetryFail
    \/ RetryWake

SpecRetry == InitRetry /\ [][NextRetry]_vars

(***************************************************************************)
(* Specification of one call of orchestrate                                *)
(***************************************************************************)
OrchPlaces ==
    {None, Some(<<>>), Some(<<" ", " ">>), Some(<<" ", "G", "o", "a">>),
     Some(<<"O", "z">>)}

WantLists ==
    {<<>>, <<"weather">>, <<"places">>, <<"weather", "places">>,
     <<"places", "weather">>, <<"hotels">>}

WeatherErrors == {"HTTPError"}

WeatherSnapshots ==
    {WeatherSnapshot(t, p) : t \in {None, Some(245), Some(236), Some(0)},
                             p \in {None, Some(35), Some(0)}}

PoiNamed(c) == Poi(Some(<<c>>), "tourism:attraction")

PlacesRawOutcomes ==
    {Raise("Exception"),
     Return(<<>>),
     Return(<<PoiNamed("a")>>),
     Return(<<Poi(Some(<<"a">>), "leisure:park"), PoiNamed("b")>>),
     Return(<<PoiNamed("a"), PoiNamed("b"), PoiNamed("c"), PoiNamed("d"), PoiNamed("e")>>)}

InitOrch == InitAll

OrchStart ==
    /\ \E place_candidate \in OrchPlaces, want \in WantLists :
           Orchestrate(place_candidate, want)
    /\ UNCHANGED <<retryVars, placesVars, cacheVars, sideVars>>

OrchGeoResponse ==
    /\ o_pc = "resolving"
    /\ \E resp \in HttpResponses : GeoHttpDone(resp)
    /\ UNCHANGED <<orchVars, retryVars, placesVars, cacheVars, sideVars>>

OrchGeoWake ==
    /\ o_pc = "resolving"
    /\ GeoSleepDone
    /\ UNCHANGED <<orchVars, retryVars, placesVars, cacheVars, sideVars>>

OrchResolve ==
    /\ OrchResolved
    /\ UNCHANGED <<retryVars, placesVars, cacheVars, sideVars>>

WeatherStart ==
    /\ WeatherTaskStart
    /\ UNCHANGED <<orchVars, placesVars, cacheVars, geoVars, sideVars>>

WeatherOk ==
    /\ \E snapshot \in WeatherSnapshots : RetryFuncReturn(snapshot)
    /\ TaskStep("weather", TRUE)
    /\ UNCHANGED <<placesVars, cacheVars, geoVars, sideVars>>

WeatherFail ==
    /\ \E e \in WeatherErrors : RetryFuncRaise(e)
    /\ TaskStep("weather", rt_pc' = "raised")
    /\ UNCHANGED <<placesVars, cacheVars, geoVars, sideVars>>

WeatherWake ==
    /\ RetrySleepDone
    /\ UNCHANGED <<orchVars, placesVars, cacheVars, geoVars, sideVars>>

PlacesStartTask ==
    /\ PlacesTaskStart
    /\ UNCHANGED <<orchVars, retryVars, cacheVars, geoVars, sideVars>>

PlacesRawResponse ==
    /\ \E out \in PlacesRawOutcomes : RawFetchDone(out)
    /\ TaskStep("places", fp_pc' = "returned")
    /\ UNCHANGED <<retryVars, cacheVars, geoVars, sideVars>>

OrchReturn ==
    /\ OrchJoin
    /\ UNCHANGED <<retryVars, placesVars, cacheVars, geoVars, sideVars>>

NextOrch ==
    \/ OrchStart
    \/ OrchGeoResponse
    \/ OrchGeoWake
    \/ OrchResolve
    \/ WeatherStart
    \/ WeatherOk
    \/ WeatherFail
    \/ WeatherWake
    \/ PlacesStartTask
    \/ PlacesRawResponse
    \/ OrchReturn

SpecOrch == InitOrch /\ [][NextOrch]_vars

(***************************************************************************)
(* Specification of one call of orchestrate with the retry wrapper of      *)
(* _fetch unfolded and the provider requests counted.  Every request       *)
(* returns or fails, every sleep ends and the event loop runs what can     *)
(* run: weak fairness of the step.                                         *)
(***************************************************************************)
LivePlaces == {Some(<<"B", "o", "m", "b", "a", "y">>), Some(<<"O", "z">>)}

LiveWants == {<<"weather", "places">>}

LiveResponses ==
    {HttpResponse(500, NotJson), HttpResponse(200, JsonList(<<>>)),
     HttpResponse(200, JsonList(GeoListOne)), HttpResponse(200, JsonList(GeoListScalar))}

LiveRawPlaces ==
    {<<>>, <<PoiNamed("a"), PoiNamed("b"), PoiNamed("c"), PoiNamed("d"), PoiNamed("e")>>}

LiveSnapshots == {WeatherSnapshot(Some(245), Some(35)), WeatherSnapshot(None, None)}

\* The requests the _perform_request calls of a geocode_place call issued.
RECURSIVE GeoRequests(_)
GeoRequests(lookups) ==
    IF lookups = <<>> THEN 0
    ELSE lookups[1].requests + GeoRequests(Tail(lookups))

InitOrchLive == InitAll

LiveStart ==
    /\ \E place_candidate \in LivePlaces, want \in LiveWants :
           Orchestrate(place_candidate, want)
    /\ o_geo_requests' = GeoRequests(g_lookups')
    /\ UNCHANGED <<pf_pc, pf_attempt, pf_requests>>
    /\ UNCHANGED <<retryVars, placesVars, cacheVars, pureVars, weatherVars, rateVars>>

LiveGeoResponse ==
    /\ o_pc = "resolving"
    /\ \E resp \in LiveResponses : GeoHttpDone(resp)
    /\ o_geo_requests' = GeoRequests(g_lookups')
    /\ UNCHANGED <<pf_pc, pf_attempt, pf_requests>>
    /\ UNCHANGED <<orchVars, retryVars, placesVars, cacheVars, pureVars, weatherVars, rateVars>>

LiveGeoWake ==
    /\ o_pc = "resolving"
    /\ GeoSleepDone
    /\ o_geo_requests' = GeoRequests(g_lookups')
    /\ UNCHANGED <<pf_pc, pf_attempt, pf_requests>>
    /\ UNCHANGED <<orchVars, retryVars, placesVars, cacheVars, pureVars, weatherVars, rateVars>>

LiveWeatherOk ==
    /\ \E snapshot \in LiveSnapshots : RetryFuncReturn(snapshot)
    /\ TaskStep("weather", TRUE)
    /\ UNCHANGED <<placesVars, cacheVars, geoVars, sideVars>>

\* The places task starts: fetch_places up to the first request of _fetch.
LivePlacesStart ==
    /\ PlacesTaskStart
    /\ FetchEnter(fp_pc' = "fetching")
    /\ UNCHANGED o_geo_requests
    /\ UNCHANGED <<orchVars, retryVars, cacheVars, geoVars, pureVars, weatherVars, rateVars>>

\* A request of _fetch returns its POIs: the wrapper returns them and
\* fetch_places goes on.
LivePlacesOk ==
    /\ pf_pc = "calling"
    /\ \E places \in LiveRawPlaces : RawFetchDone(Return(places))
    /\ FetchEnter(fp_pc' = "fetching")
    /\ TaskStep("places", fp_pc' = "returned")
    /\ UNCHANGED o_geo_requests
    /\ UNCHANGED <<retryVars, cacheVars, geoVars, pureVars, weatherVars, rateVars>>

\* A request of _fetch fails: the wrapper counts the attempt, then sleeps
\* or re-raises into fetch_places.
LivePlacesFail ==
    /\ pf_pc = "calling"
    /\ LET r == RetryOnError(pf_attempt, FETCH_RETRIES, FETCH_BACKOFF_MS) IN
       IF r.reraise
       THEN /\ RawFetchDone(Raise("Exception"))
            /\ FetchEnter(fp_pc' = "fetching")
            /\ TaskStep("places", fp_pc' = "returned")
       ELSE /\ pf_pc' = "sleeping"
            /\ pf_attempt' = r.attempt
            /\ UNCHANGED <<pf_requests, placesVars, orchVars>>
    /\ UNCHANGED o_geo_requests
    /\ UNCHANGED <<retryVars, cacheVars, geoVars, pureVars, weatherVars, rateVars>>

\* The sleep of the wrapper of _fetch is over: the next request.
LivePlacesWake ==
    /\ pf_pc = "sleeping"
    /\ pf_pc' = RetryLoop(pf_attempt, FETCH_RETRIES, Some("Exception")).pc
    /\ pf_requests' = pf_requests + 1
    /\ UNCHANGED <<pf_attempt, o_geo_requests>>
    /\ UNCHANGED <<orchVars, retryVars, placesVars, cacheVars, geoVars, pureVars, weatherVars, rateVars>>

NextOrchLive ==
    \/ LiveStart
    \/ LiveGeoResponse
    \/ LiveGeoWake
    \/ OrchResolve
    \/ WeatherStart
    \/ LiveWeatherOk
    \/ WeatherFail
    \/ WeatherWake
    \/ LivePlacesStart
    \/ LivePlacesOk
    \/ LivePlacesFail
    \/ LivePlacesWake
    \/ OrchReturn

SpecOrchLive == InitOrchLive /\ [][NextOrchLive]_vars /\ WF_vars(NextOrchLive)

(***************************************************************************)
(* Specification of successive calls of fetch_weather                      *)
(***************************************************************************)
MaxWeatherCalls == 2

MaxClock == 900

ClockSteps == {300}

WeatherCoords == {<<129716, 775946>>, <<154909, 738278>>}

FetchedSnapshots ==
    {WeatherSnapshot(Some(245), Some(35)), WeatherSnapshot(Some(236), None)}

InitWeather == InitAll

FwStart ==
    /\ Len(fw_hist) < MaxWeatherCalls
    /\ \E c \in WeatherCoords : FetchWeatherCall(c[1], c[2])
    /\ UNCHANGED exceptWeather

FwOk ==
    /\ ~IsNone(fw_call)
    /\ \E snapshot \in FetchedSnapshots : RetryFuncReturn(snapshot)
    /\ UNCHANGED <<weatherVars, exceptWeather>>

FwFail ==
    /\ ~IsNone(fw_call)
    /\ \E e \in WeatherErrors : RetryFuncRaise(e)
    /\ UNCHANGED <<weatherVars, exceptWeather>>

FwWake ==
    /\ ~IsNone(fw_call)
    /\ RetrySleepDone
    /\ UNCHANGED <<weatherVars, exceptWeather>>

FwEnd ==
    /\ FetchWeatherEnd
    /\ UNCHANGED exceptWeather

FwTick ==
    /\ \E d \in ClockSteps :
           /\ fw_now + d <= MaxClock
           /\ fw_now' = fw_now + d
    /\ UNCHANGED <<fw_call, fw_hist, retryVars, exceptWeather>>

NextWeather ==
    \/ FwStart
    \/ FwOk
    \/ FwFail
    \/ FwWake
    \/ FwEnd
    \/ FwTick

SpecWeather == InitWeather /\ [][NextWeather]_vars


(***************************************************************************)
(* Claims                                                                  *)
(***************************************************************************)
AllRaised(calls) == \A i \in 1..Len(calls) : calls[i].kind = "raise"

\* C6: with retries >= 1 the operation is invoked once per attempt, never
\* after a success and never more than `retries` times; the wrapper raises
\* exactly when `retries` invocations have all failed, and then with the
\* last invocation's error; it returns exactly when invocation k <= retries
\* is the first to succeed, after exactly k invocations, with that value.
C6_RetryInvocationCount ==
    (rt_pc # "idle" /\ rt_retries >= 1) =>
        /\ rt_invocations <= rt_retries
        /\ rt_invocations = Len(rt_calls) + (IF rt_pc = "calling" THEN 1 ELSE 0)
        /\ \A i \in 1..(Len(rt_calls) - 1) : rt_calls[i].kind = "raise"
        /\ (rt_pc = "raised") <=>
               (Len(rt_calls) = rt_retries /\ AllRaised(rt_calls))
        /\ (rt_pc = "raised") =>
               /\ rt_invocations = rt_retries
               /\ rt_out = Raise(Last(rt_calls).val)
        /\ (rt_pc = "returned") <=>
               (Len(rt_calls) >= 1 /\ Last(rt_calls).kind = "return")
        /\ (rt_pc = "returned") =>
               /\ rt_invocations = Len(rt_calls)
               /\ rt_out = Last(rt_calls)

\* Three attempts that all failed, the last with a different error than the first.
C6_Witness ==
    /\ rt_pc = "raised"
    /\ rt_retries = 3
    /\ rt_invocations = 3
    /\ rt_calls[1].val # rt_calls[3].val
    /\ rt_out = Raise(rt_calls[3].val)

\* The truthy names of the POIs a raw fetch returned, in order (none if it raised).
RECURSIVE NamesOf(_)
NamesOf(ps) ==
    IF ps = <<>> THEN <<>>
    ELSE (IF Truthy(Head(ps).name) THEN <<Head(ps).name>> ELSE <<>>) \o NamesOf(Tail(ps))

RawNames(entry) == IF entry.out.kind = "return" THEN NamesOf(entry.out.val) ELSE <<>>

RECURSIVE SeenNames(_, _)
SeenNames(log, n) ==
    IF n = 0 THEN <<>> ELSE SeenNames(log, n - 1) \o RawNames(log[n])

FirstIndex(s, x) == CHOOSE i \in 1..Len(s) : s[i] = x /\ \A j \in 1..(i - 1) : s[j] # x

\* C9: one fetch_places call makes at most 2 raw fetches, the first at the
\* given radius and the second at twice that radius (same coordinates and
\* limit), and the second only if the first left fewer than `limit` distinct
\* names; whether the raw fetches return many, few or no POIs, or raise.
C9_RadiusExpansionBound ==
    /\ Len(fp_log) <= 2
    /\ \A i \in 1..Len(fp_log) :
           /\ fp_log[i].coords = fp_coords
           /\ fp_log[i].limit = fp_limit
    /\ Len(fp_log) >= 1 => fp_log[1].radius = fp_radius0
    /\ Len(fp_log) = 2 =>
           /\ fp_log[2].radius = 2 * fp_radius0
           /\ fp_log[1].out.kind # "none"
           /\ Cardinality(Range(RawNames(fp_log[1]))) < fp_limit

\* The first raw fetch raised, the second returned fewer names than the limit.
C9_Witness ==
    /\ fp_pc = "returned"
    /\ Len(fp_log) = 2
    /\ fp_log[1].out.kind = "raise"
    /\ fp_log[2].out.kind = "return"
    /\ Len(fp_out.val) = 1
    /\ fp_limit = 2

\* C10: fetch_places always returns a list: at most `limit` POIs, with
\* truthy, pairwise distinct names, namely the first names seen over the raw
\* fetches in first-seen order; the empty list when every raw fetch raised.
C10_FetchPlacesNeverFails ==
    fp_pc = "returned" =>
        LET r    == fp_out.val
            seen == SeenNames(fp_log, Len(fp_log))
        IN  /\ fp_out.kind = "return"
            /\ Len(r) <= fp_limit
            /\ Len(r) = Min(fp_limit, Cardinality(Range(seen)))
            /\ \A i \in 1..Len(r) : Truthy(r[i].name) /\ r[i].name \in Range(seen)
            /\ \A i, j \in 1..Len(r) : i # j => r[i].name # r[j].name
            /\ \A i, j \in 1..Len(r) :
                   i < j => FirstIndex(seen, r[i].name) < FirstIndex(seen, r[j].name)
            /\ \A n \in Range(seen) :
                   (\A i \in 1..Len(r) : r[i].name # n) =>
                       \A i \in 1..Len(r) :
                           FirstIndex(seen, r[i].name) < FirstIndex(seen, n)
            /\ (\A i \in 1..Len(fp_log) : fp_log[i].out.kind = "raise") => r = <<>>

\* Both raw fetches raised and the empty list came back.
C10_Witness ==
    /\ fp_pc = "returned"
    /\ Len(fp_log) = 2
    /\ fp_log[1].out.kind = "raise"
    /\ fp_log[2].out.kind = "raise"
    /\ fp_limit = 2
    /\ fp_out = Return(<<>>)

\* C5: as long as no two lookups of one key have overlapped, a lookup that
\* starts after a lookup of the same key computed and stored v, and reads a
\* time before that entry's expiry (the computing lookup's start time plus
\* the TTL), returns v and does not call the wrapped operation.
C5_CacheHitWithinTtl ==
    ~c_overlap =>
        \A i, j \in 1..Len(c_hist) :
            ( /\ i < j
              /\ c_hist[i].key = c_hist[j].key
              /\ c_hist[i].invoked
              /\ c_hist[i].out.kind = "return"
              /\ c_hist[j].now < c_hist[i].now + TtlSeconds )
            => /\ c_hist[j].out = c_hist[i].out
               /\ ~c_hist[j].invoked

\* A value computed at one time and served from the store at a later time.
C5_Witness ==
    /\ ~c_overlap
    /\ \E i, j \in 1..Len(c_hist) :
           /\ i < j
           /\ c_hist[i].key = c_hist[j].key
           /\ c_hist[i].invoked
           /\ c_hist[i].out.kind = "return"
           /\ c_hist[j].now > c_hist[i].now
           /\ c_hist[j].now < c_hist[i].now + TtlSeconds
           /\ ~c_hist[j].invoked
           /\ c_hist[j].out = c_hist[i].out

\* C7: whatever list the provider sends, the candidates the primary lookup
\* returns are at most 3, have pairwise distinct display names, and each is
\* the first item of the response that carries its name, that name being
\* non-empty and that item's lat and lon being parseable; the candidates
\* come in the order of those items in the response.
FirstOccurrence(data, name) ==
    CHOOSE i \in 1..Len(data) :
        /\ data[i].display_name = Some(name)
        /\ \A j \in 1..(i - 1) : data[j].display_name # Some(name)

ParsedFrom(item, candidate) ==
    /\ item.object
    /\ item.display_name # None
    /\ item.display_name # Some(<<>>)
    /\ item.display_name = Some(candidate.display_name)
    /\ ParseFloat(item.lat) = Some(candidate.lat)
    /\ ParseFloat(item.lon) = Some(candidate.lon)

C7_GeocodeParseDedupCap ==
    gp_out.kind = "return" =>
        LET res == gp_out.val IN
        /\ Len(res) <= 3
        /\ \A a, b \in 1..Len(res) :
               a # b => res[a].display_name # res[b].display_name
        /\ \A a \in 1..Len(res) :
               /\ \E i \in 1..Len(gp_data) : gp_data[i].display_name = Some(res[a].display_name)
               /\ ParsedFrom(gp_data[FirstOccurrence(gp_data, res[a].display_name)], res[a])
        /\ \A a, b \in 1..Len(res) :
               a < b => FirstOccurrence(gp_data, res[a].display_name)
                          < FirstOccurrence(gp_data, res[b].display_name)

\* Five items, one of them repeating the name of the first candidate and one
\* with a null name, gave exactly 3 candidates.
C7_Witness ==
    /\ gp_out.kind = "return"
    /\ Len(gp_out.val) = 3
    /\ Len(gp_data) = 5
    /\ \E i, j \in 1..Len(gp_data) :
           /\ i < j
           /\ gp_data[i].display_name = gp_data[j].display_name
           /\ gp_data[i].display_name = Some(gp_out.val[1].display_name)
    /\ \E i \in 1..Len(gp_data) : gp_data[i].display_name = None

\* C8: geocode_place makes its first lookup on the query as given; the i-th
\* alias of the trimmed, lower-cased query is looked up only after the query
\* and every earlier alias gave no candidates, and aliases are taken in
\* table order; what is returned is the non-empty result of the last lookup
\* made, or else the single static candidate (source "static"), and that
\* only when the query and every alias gave no candidates and the static
\* table has the trimmed, lower-cased query.
YieldsNothing(out) ==
    \/ out.kind = "raise" /\ out.val.type = "ValueError"
    \/ out.kind = "return" /\ out.val = <<>>

C8_ResolverFallbackOrder ==
    LET n       == Len(g_lookups)
        key     == Lower(Strip(g_query))
        aliases == AliasMapGet(key)
        static  == StaticRawGet(key)
    IN  /\ n >= 1 => g_lookups[1].query = g_query
        /\ n <= 1 + Len(aliases)
        /\ \A i \in 2..n :
               /\ g_lookups[i].query = aliases[i - 1]
               /\ \A j \in 1..(i - 1) : YieldsNothing(g_lookups[j].out)
        /\ g_pc = "returned" =>
               \/ /\ n >= 1
                  /\ g_out = g_lookups[n].out
                  /\ g_out.val # <<>>
                  /\ \A a \in 1..Len(g_out.val) : g_out.val[a].source = "nominatim"
               \/ /\ ~IsNone(static)
                  /\ g_out.val = <<GeocodeResult(Val(static).name, Val(static).lat,
                                                 Val(static).lon, "static")>>
                  /\ n = 1 + Len(aliases)
                  /\ \A j \in 1..n : YieldsNothing(g_lookups[j].out)

\* The query and both of its aliases gave nothing, in table order, and the
\* static candidate of the trimmed, lower-cased query came back.
C8_Witness ==
    /\ g_pc = "returned"
    /\ Len(g_lookups) = 3
    /\ g_out.val[1].source = "static"
    /\ g_query # Lower(Strip(g_query))

\* C1: when the place resolved, weather and places were both wanted, the
\* weather provider raised on every one of the attempts and fetch_places
\* returned a non-empty list, orchestrate returns (it does not raise) a
\* result whose places are the names of that list in order, whose weather
\* block is absent or has a non-empty error, and whose errors are non-empty.
C1_WeatherFailureIsolation ==
    (/\ o_pc \in {"returned", "raised"}
     /\ ~IsNone(o_geocode)
     /\ {"weather", "places"} \subseteq Range(o_want)
     /\ Len(rt_calls) = WEATHER_RETRIES
     /\ AllRaised(rt_calls)
     /\ fp_out.kind = "return"
     /\ fp_out.val # <<>>)
    => /\ o_out.kind = "return"
       /\ o_out.val.places = Some([i \in 1..Len(fp_out.val) |-> fp_out.val[i].name])
       /\ \/ IsNone(o_out.val.weather)
          \/ /\ ~IsNone(Val(o_out.val.weather).error)
             /\ Val(Val(o_out.val.weather).error) # ""
       /\ ~IsNone(o_out.val.errors)
       /\ Val(o_out.val.errors) # <<>>

\* Three failed weather requests, one place fetched: the result has that
\* one name and the weather error.
C1_Witness ==
    /\ o_pc = "returned"
    /\ ~IsNone(o_geocode)
    /\ {"weather", "places"} \subseteq Range(o_want)
    /\ Len(rt_calls) = WEATHER_RETRIES
    /\ AllRaised(rt_calls)
    /\ fp_out.kind = "return"
    /\ Len(fp_out.val) = 1
    /\ o_out.val.places = Some(<<fp_out.val[1].name>>)
    /\ ~IsNone(o_out.val.weather)
    /\ ~IsNone(o_out.val.errors)

\* C2: orchestrate never ends by raising, whatever the candidate, the want
\* list and the outcomes of the geocoding, weather and POI providers; what
\* it returns has a text of at least one sentence.
C2_OrchestrateNeverRaises ==
    /\ o_pc # "raised"
    /\ o_out.kind # "raise"
    /\ o_pc = "returned" => o_out.kind = "return" /\ o_out.val.text # <<>>

\* geocode_place raised something that is no ValueError and orchestrate
\* still returned a result.
C2_Witness ==
    /\ o_pc = "returned"
    /\ o_geo_out.kind = "raise"
    /\ o_geo_out.val.type # "ValueError"
    /\ o_out.kind = "return"
    /\ o_out.val.text # <<>>

\* C3: after a resolution, orchestrate leaves the gather (and so reads the
\* results and returns) only when every task it created is done, each with
\* the outcome of its own run: the weather task with a snapshot or the
\* error block after its last attempt, the places task with what
\* fetch_places returned; while a task is not done orchestrate is still in
\* the gather, whatever became of the other task.
C3_WaitForAllJoin ==
    ~IsNone(o_geocode) =>
       /\ o_tasks = TasksFor(o_want)
       /\ o_pc # "gathering" =>
              /\ "weather" \in o_tasks => rt_pc \in {"returned", "raised"}
              /\ "places" \in o_tasks => fp_pc = "returned"
       /\ (\/ "weather" \in o_tasks /\ rt_pc \notin {"returned", "raised"}
           \/ "places" \in o_tasks /\ fp_pc # "returned")
          => o_pc = "gathering" /\ o_out = NoOutcome

\* The weather task failed and the places task went through both of its
\* raw fetches before orchestrate returned.
C3_Witness ==
    /\ o_pc = "returned"
    /\ ~IsNone(o_geocode)
    /\ o_tasks = {"weather", "places"}
    /\ rt_pc = "raised"
    /\ fp_pc = "returned"
    /\ Len(fp_log) = 2
    /\ fp_out.val # <<>>

\* C4: with both domains wanted and the place resolved, the weather block
\* of the result is a function of the outcomes of the weather requests
\* alone (the snapshot of the last one, or the error block when they all
\* failed) and places / places_geo are a function of what fetch_places
\* returned alone (its names, its list).
C4_NonInterference ==
    (/\ o_pc = "returned"
     /\ ~IsNone(o_geocode)
     /\ {"weather", "places"} \subseteq Range(o_want))
    => /\ rt_calls # <<>>
       /\ o_out.val.weather =
              Some(IF Last(rt_calls).kind = "return" THEN Last(rt_calls).val
                   ELSE [temperature |-> None, precipitation_probability |-> None,
                         error |-> Some("Weather service temporarily unavailable")])
       /\ fp_out.kind = "return"
       /\ o_out.val.places_geo = Some(fp_out.val)
       /\ o_out.val.places = Some([i \in 1..Len(fp_out.val) |-> fp_out.val[i].name])

\* Both directions in reach: a weather snapshot next to an empty places
\* result whose raw fetches both failed.
C4_Witness ==
    /\ o_pc = "returned"
    /\ ~IsNone(o_geocode)
    /\ {"weather", "places"} \subseteq Range(o_want)
    /\ rt_calls # <<>>
    /\ Last(rt_calls).kind = "return"
    /\ ~IsNone(Val(o_out.val.weather).temperature)
    /\ Len(fp_log) = 2
    /\ \A i \in 1..2 : fp_log[i].out.kind = "raise"
    /\ o_out.val.places = Some(<<>>)

\* C11: the precipitation probability is the integer value of the entry of
\* the probability array at the index of the hourly timestamp equal to the
\* current-conditions timestamp; it is absent, and nothing is raised, when
\* no hourly timestamp equals the current one, when that index lies beyond
\* the end of the probability array, or when the value there is null.
MatchIndexes ==
    IF IsNone(wp_data.current) \/ wp_data.times.kind # "list" THEN {}
    ELSE {i \in 1..Len(wp_data.times.items) : wp_data.times.items[i] = Val(wp_data.current)}

C11_WeatherTimeAlignment ==
    (wp_out # NoOutcome /\ wp_data.times.kind = "list" /\ wp_data.probs.kind = "list")
    => LET probs == wp_data.probs.items IN
       IF MatchIndexes = {} THEN wp_out = Return(None)
       ELSE LET i == CHOOSE k \in MatchIndexes : \A j \in MatchIndexes : k <= j IN
            IF i > Len(probs) THEN wp_out = Return(None)
            ELSE /\ probs[i].kind = "null" => wp_out = Return(None)
                 /\ probs[i].kind = "int" => wp_out = Return(Some(probs[i].num))
                 /\ probs[i].kind = "float" =>
                        /\ wp_out.kind = "return"
                        /\ ~IsNone(wp_out.val)
                        /\ 10 * Val(wp_out.val) <= probs[i].num
                        /\ probs[i].num < 10 * Val(wp_out.val) + 10
                 /\ (wp_out.kind = "return" /\ ~IsNone(wp_out.val))
                        => probs[i].kind \in {"int", "float", "str"}

\* The current timestamp is the third hourly one and the third probability,
\* an integer, came back.
C11_Witness ==
    /\ wp_out.kind = "return"
    /\ ~IsNone(wp_out.val)
    /\ wp_data.times.kind = "list"
    /\ wp_data.probs.kind = "list"
    /\ MatchIndexes = {3}
    /\ wp_data.probs.items[3].kind = "int"
    /\ wp_out.val = Some(wp_data.probs.items[3].num)

\* C12: in the parsed output every name occurs once; an entry's name is the
\* name tag of an element with tags, or its name:en tag when it has no name
\* tag; elements without tags or without a name give no entry; and an entry
\* has the category and the coordinates of the first element of the
\* response that has its name.
NameOfElement(el) ==
    IF IsNone(el.tags) THEN None
    ELSE IF Val(el.tags).name \notin {None, Some(<<>>)} THEN Val(el.tags).name
    ELSE IF Val(el.tags).name_en \notin {None, Some(<<>>)} THEN Val(el.tags).name_en
    ELSE None

C12_PoiParsingDedup ==
    ov_out.kind = "return" =>
        LET res == ov_out.val IN
        /\ \A a, b \in 1..Len(res) : a # b => res[a].name # res[b].name
        /\ \A a \in 1..Len(res) :
               /\ ~IsNone(res[a].name)
               /\ \E i \in 1..Len(ov_data) :
                      /\ NameOfElement(ov_data[i]) = res[a].name
                      /\ \A j \in 1..(i - 1) : NameOfElement(ov_data[j]) # res[a].name
                      /\ res[a].category = ElementCategory(Val(ov_data[i].tags))
                      /\ res[a].lat = ElementCoords(ov_data[i]).lat
                      /\ res[a].lon = ElementCoords(ov_data[i]).lon

\* A response where a later element repeats, through name:en, the name of an
\* earlier one, an element has no tags, and the entries are the first
\* elements of their names.
C12_Witness ==
    /\ ov_out.kind = "return"
    /\ Len(ov_out.val) = 2
    /\ \E i, j \in 1..Len(ov_data) :
           /\ i < j
           /\ NameOfElement(ov_data[i]) = ov_out.val[1].name
           /\ NameOfElement(ov_data[j]) = ov_out.val[1].name
           /\ IsNone(Val(ov_data[j].tags).name)
    /\ \E i \in 1..Len(ov_data) : IsNone(ov_data[i].tags)

\* The candidate orchestrate was called with is None, empty or made of
\* whitespace only.
UnusableCandidate ==
    \/ IsNone(o_place)
    \/ \A i \in 1..Len(Val(o_place)) : Val(o_place)[i] \in Whitespace

\* No geocoding lookup, no weather request and no POI fetch has been made,
\* and no task was created.
NoRemoteCall ==
    /\ g_pc = "idle"
    /\ g_lookups = <<>>
    /\ o_geo_out = NoOutcome
    /\ o_tasks = {}
    /\ rt_pc = "idle"
    /\ rt_invocations = 0
    /\ rt_calls = <<>>
    /\ fp_pc = "idle"
    /\ fp_log = <<>>

\* C13: once orchestrate was called with a candidate that is None, empty
\* or whitespace-only, it has returned at once, with no geocoding, weather
\* or POI call made, a result whose place, lat, lon, weather and places are
\* all absent and whose errors list has exactly one entry.
C13_InputErrorBranch ==
    (o_pc # "idle" /\ UnusableCandidate)
    => /\ o_pc = "returned"
       /\ o_out.kind = "return"
       /\ IsNone(o_out.val.place)
       /\ IsNone(o_out.val.lat)
       /\ IsNone(o_out.val.lon)
       /\ IsNone(o_out.val.weather)
       /\ IsNone(o_out.val.places)
       /\ ~IsNone(o_out.val.errors)
       /\ Len(Val(o_out.val.errors)) = 1
       /\ NoRemoteCall

\* A candidate of two spaces: returned with one error and nothing called.
C13_Witness ==
    /\ o_pc = "returned"
    /\ o_place = Some(<<" ", " ">>)
    /\ o_out.kind = "return"
    /\ IsNone(o_out.val.place)
    /\ ~IsNone(o_out.val.errors)
    /\ Len(Val(o_out.val.errors)) = 1
    /\ g_lookups = <<>>
    /\ rt_invocations = 0
    /\ fp_log = <<>>

\* geocode_place gave no candidate: it raised or returned an empty list.
ResolutionFailed ==
    \/ o_geo_out.kind = "raise"
    \/ o_geo_out.kind = "return" /\ o_geo_out.val = <<>>

\* C14: when the resolution of a non-blank candidate yields nothing (the
\* resolver raised or returned no candidate), orchestrate has created no
\* weather or places task and called no fetcher, and it has returned a
\* result whose place is the original candidate text, whose lat, lon,
\* weather and places are absent and whose errors list is exactly one
\* entry, which names that candidate.
C14_ResolutionErrorBranch ==
    (~UnusableCandidate /\ ResolutionFailed)
    => /\ o_pc = "returned"
       /\ o_out.kind = "return"
       /\ o_out.val.place = o_place
       /\ IsNone(o_out.val.lat)
       /\ IsNone(o_out.val.lon)
       /\ IsNone(o_out.val.weather)
       /\ IsNone(o_out.val.places)
       /\ ~IsNone(o_out.val.errors)
       /\ Len(Val(o_out.val.errors)) = 1
       /\ Val(o_out.val.errors)[1].arg = o_place
       /\ o_tasks = {}
       /\ IsNone(o_geocode)
       /\ rt_pc = "idle"
       /\ rt_invocations = 0
       /\ fp_pc = "idle"
       /\ fp_log = <<>>

\* "Oz" was not found by the provider: the result carries "Oz" and one
\* error naming it.
C14_Witness ==
    /\ o_pc = "returned"
    /\ o_place = Some(<<"O", "z">>)
    /\ o_geo_out.kind = "raise"
    /\ o_out.kind = "return"
    /\ o_out.val.place = o_place
    /\ ~IsNone(o_out.val.errors)
    /\ Val(o_out.val.errors) = <<Err("Location not found", o_place)>>
    /\ o_tasks = {}

\* The messages of the errors in the result's errors list.
ErrorMsgs ==
    IF o_out.kind = "return" /\ ~IsNone(o_out.val.errors)
    THEN {Val(o_out.val.errors)[i].msg : i \in 1..Len(Val(o_out.val.errors))}
    ELSE {}

WeatherErrorMsgs ==
    {"Weather service unavailable", "Weather service temporarily unavailable"}

PlacesErrorMsgs == {"Places service unavailable"}

\* C15: after a successful resolution a fetcher is invoked if and only if
\* its domain is in want: for a domain that is not in want the fetcher is
\* never called, its block in the result is absent and the errors list has
\* no error of that domain; for a domain in want the fetcher has been
\* called by the time orchestrate returns.
C15_OnlyRequestedDomainsRun ==
    ~IsNone(o_geocode)
    => /\ ("weather" \in o_tasks) <=> ("weather" \in Range(o_want))
       /\ ("places" \in o_tasks) <=> ("places" \in Range(o_want))
       /\ "weather" \notin Range(o_want)
          => /\ rt_pc = "idle"
             /\ rt_invocations = 0
             /\ rt_calls = <<>>
             /\ o_pc = "returned"
                => /\ IsNone(o_out.val.weather)
                   /\ ErrorMsgs \cap WeatherErrorMsgs = {}
       /\ "places" \notin Range(o_want)
          => /\ fp_pc = "idle"
             /\ fp_log = <<>>
             /\ o_pc = "returned"
                => /\ IsNone(o_out.val.places)
                   /\ IsNone(o_out.val.places_geo)
                   /\ ErrorMsgs \cap PlacesErrorMsgs = {}
       /\ (o_pc = "returned" /\ "weather" \in Range(o_want))
          => rt_pc # "idle" /\ rt_invocations >= 1
       /\ (o_pc = "returned" /\ "places" \in Range(o_want))
          => fp_pc # "idle" /\ fp_log # <<>>

\* Only places were wanted: fetch_places ran and gave names, the weather
\* fetcher was never called and the result has no weather block.
C15_Witness ==
    /\ o_pc = "returned"
    /\ ~IsNone(o_geocode)
    /\ o_want = <<"places">>
    /\ rt_invocations = 0
    /\ fp_log # <<>>
    /\ o_out.kind = "return"
    /\ IsNone(o_out.val.weather)
    /\ ~IsNone(o_out.val.places)
    /\ Val(o_out.val.places) # <<>>
    /\ IsNone(o_out.val.errors)

\* orchestrate has returned after a resolution and weather was wanted.
WeatherWantedReturned ==
    /\ o_pc = "returned"
    /\ o_out.kind = "return"
    /\ ~IsNone(o_geocode)
    /\ "weather" \in Range(o_want)

\* The weather block of the result carries a non-empty error.
WeatherBlockErroneous ==
    /\ ~IsNone(o_out.val.weather)
    /\ ~IsNone(Val(o_out.val.weather).error)
    /\ Val(Val(o_out.val.weather).error) # ""

\* C16 as stated: whenever weather was wanted and the weather block of the
\* result is absent or erroneous, "Weather service unavailable" is in the
\* errors list.
C16_AsStated ==
    (/\ WeatherWantedReturned
     /\ IsNone(o_out.val.weather) \/ WeatherBlockErroneous)
    => "Weather service unavailable" \in ErrorMsgs

\* C16: whenever weather was wanted and the weather block of the result
\* carries an error, the first entry of the errors list is that block's own
\* error string and "Weather service unavailable" is not listed; when the
\* weather task failed on every attempt that string is "Weather service
\* temporarily unavailable". "Weather service unavailable" is what the
\* weather part of the summary adds for a wanted weather block that is
\* absent, and a wanted weather block is never absent after the gather.
C16_WeatherDomainError ==
    /\ "weather" \in Range(o_want)
       => WeatherPart(None, o_want).errors
              = <<Err("Weather service unavailable", None)>>
    /\ WeatherWantedReturned
       => /\ ~IsNone(o_out.val.weather)
          /\ WeatherBlockErroneous
             => /\ ~IsNone(o_out.val.errors)
                /\ Val(o_out.val.errors)[1].msg = Val(Val(o_out.val.weather).error)
                /\ "Weather service unavailable" \notin ErrorMsgs
          /\ (Len(rt_calls) = WEATHER_RETRIES /\ AllRaised(rt_calls))
             => /\ WeatherBlockErroneous
                /\ Val(Val(o_out.val.weather).error)
                       = "Weather service temporarily unavailable"
                /\ "Weather service temporarily unavailable" \in ErrorMsgs

\* The weather provider raised three times: the errors list starts with
\* "Weather service temporarily unavailable" and has no "Weather service
\* unavailable".
C16_Witness ==
    /\ WeatherWantedReturned
    /\ Len(rt_calls) = WEATHER_RETRIES
    /\ AllRaised(rt_calls)
    /\ WeatherBlockErroneous
    /\ ~IsNone(o_out.val.errors)
    /\ Val(o_out.val.errors)[1].msg = "Weather service temporarily unavailable"
    /\ "Weather service unavailable" \notin ErrorMsgs

\* orchestrate has returned after a resolution and places were wanted.
PlacesWantedReturned ==
    /\ o_pc = "returned"
    /\ o_out.kind = "return"
    /\ ~IsNone(o_geocode)
    /\ "places" \in Range(o_want)

\* What fetch_places gave the places task: its list, or nothing when it
\* raised.
PlacesGiven == IF fp_out.kind = "return" THEN fp_out.val ELSE <<>>

\* The places sentences of the result's text.
PlacesSentences ==
    {i \in 1..Len(o_out.val.text) : o_out.val.text[i].kind = "places"}

\* Where the i-th name starts in the comma-joined listing, less one.
RECURSIVE JoinedStart(_, _)
JoinedStart(names, i) ==
    IF i = 1 THEN 0
    ELSE JoinedStart(names, i - 1) + Len(Val(names[i - 1])) + 2

\* `listed` is the names in order, each but the first after ", ".
ListsInOrder(listed, names) ==
    /\ names # <<>>
    /\ Len(listed) = JoinedStart(names, Len(names)) + Len(Val(names[Len(names)]))
    /\ \A i \in 1..Len(names) :
           /\ \A k \in 1..Len(Val(names[i])) :
                  listed[JoinedStart(names, i) + k] = Val(names[i])[k]
           /\ i > 1 => /\ listed[JoinedStart(names, i) - 1] = ","
                       /\ listed[JoinedStart(names, i)] = " "

\* C17: when places were wanted, the text has a places sentence, which
\* lists the names fetch_places returned, comma-joined in order, if and only
\* if that list is non-empty; when it is empty (fetch_places returned
\* nothing or raised) there is no places sentence and "Places service
\* unavailable" is in the errors list; never both a places sentence and
\* that error.
C17_PlacesSummaryRule ==
    PlacesWantedReturned
    => LET names == [i \in 1..Len(PlacesGiven) |-> PlacesGiven[i].name] IN
       /\ o_out.val.places = Some(names)
       /\ (PlacesSentences # {}) <=> (names # <<>>)
       /\ names # <<>>
          => /\ PlacesSentences = {Len(o_out.val.text)}
             /\ ListsInOrder(o_out.val.text[Len(o_out.val.text)].names, names)
             /\ "Places service unavailable" \notin ErrorMsgs
       /\ names = <<>>
          => "Places service unavailable" \in ErrorMsgs
       /\ ~(PlacesSentences # {} /\ "Places service unavailable" \in ErrorMsgs)

\* fetch_places returned two places: the sentence lists "a, b" and there is
\* no places error.
C17_Witness ==
    /\ PlacesWantedReturned
    /\ fp_out.kind = "return"
    /\ Len(fp_out.val) = 2
    /\ PlacesSentences # {}
    /\ o_out.val.text[Len(o_out.val.text)].names = <<"a", ",", " ", "b">>
    /\ "Places service unavailable" \notin ErrorMsgs

\* The weather sentences of the result's text, of the given kind.
WeatherSentences(kind) ==
    {i \in 1..Len(o_out.val.text) : o_out.val.text[i].kind = kind}

\* C18: when the weather block of the result is present and has no error,
\* the text has the full weather sentence (the temperature rounded to whole
\* degrees and the percentage) if and only if the temperature and the
\* precipitation probability are both available (a value of 0 is
\* available), the shorter temperature-only sentence if and only if the
\* temperature is available and the precipitation probability is not, and
\* no weather sentence when the temperature is absent; a weather block that
\* carries an error gives no weather sentence.
C18_WeatherSummaryRule ==
    (WeatherWantedReturned /\ ~IsNone(o_out.val.weather))
    => LET w      == Val(o_out.val.weather)
           full   == WeatherSentences("weather_full")
           short  == WeatherSentences("weather_temperature")
           temp   == ~IsNone(w.temperature)
           precip == ~IsNone(w.precipitation_probability)
       IN  IF WeatherBlockErroneous
           THEN full = {} /\ short = {}
           ELSE /\ (full # {}) <=> (temp /\ precip)
                /\ (short # {}) <=> (temp /\ ~precip)
                /\ ~temp => (full = {} /\ short = {})
                /\ full # {}
                   => /\ full = {1}
                      /\ o_out.val.text[1].precip = w.precipitation_probability
                      /\ 10 * Val(o_out.val.text[1].temp) - Val(w.temperature) \in -5..5
                /\ short # {}
                   => /\ short = {1}
                      /\ 10 * Val(o_out.val.text[1].temp) - Val(w.temperature) \in -5..5

\* 24.5 degrees and a precipitation probability of 0: the full sentence,
\* with 24 degrees and 0%.
C18_Witness ==
    /\ WeatherWantedReturned
    /\ o_out.val.weather = Some(WeatherSnapshot(Some(245), Some(0)))
    /\ o_out.val.text[1] = Sentence("weather_full", Some(24), Some(0), <<>>)

\* orchestrate has returned after a resolution.
ResolvedReturned ==
    /\ o_pc = "returned"
    /\ o_out.kind = "return"
    /\ ~IsNone(o_geocode)

\* The sentences of the text that are weather or places sentences.
DataSentences ==
    {i \in 1..Len(o_out.val.text) :
        o_out.val.text[i].kind \in {"weather_full", "weather_temperature", "places"}}

\* What the weather task and the places task have to give a sentence and
\* an error, from the outcomes of their fetchers.
WeatherGivesSentence ==
    /\ "weather" \in Range(o_want)
    /\ rt_out.kind = "return"
    /\ ~IsNone(rt_out.val.temperature)

WeatherGivesError ==
    /\ "weather" \in Range(o_want)
    /\ rt_out.kind = "raise"

PlacesGiveSentence ==
    /\ "places" \in Range(o_want)
    /\ PlacesGiven # <<>>

PlacesGiveError ==
    /\ "places" \in Range(o_want)
    /\ PlacesGiven = <<>>

\* C19: after a successful resolution the text is the one sentence "No
\* data available." if and only if no weather or places sentence was
\* produced; otherwise it is exactly the produced sentences, the weather
\* sentence before the places sentence. The errors field is None if and
\* only if no error was accumulated; otherwise it is exactly the
\* accumulated errors, the weather error before the places error.
C19_ResultShape ==
    ResolvedReturned
    => LET text   == o_out.val.text
           errors == o_out.val.errors
           nsent  == (IF WeatherGivesSentence THEN 1 ELSE 0)
                     + (IF PlacesGiveSentence THEN 1 ELSE 0)
           nerr   == (IF WeatherGivesError THEN 1 ELSE 0)
                     + (IF PlacesGiveError THEN 1 ELSE 0)
       IN  /\ (text = <<Sentence("no_data", None, None, <<>>)>>) <=> (nsent = 0)
           /\ (DataSentences = {}) <=> (nsent = 0)
           /\ nsent > 0
              => /\ Len(text) = nsent
                 /\ DataSentences = 1..nsent
                 /\ WeatherGivesSentence
                    => text[1].kind \in {"weather_full", "weather_temperature"}
                 /\ PlacesGiveSentence => text[nsent].kind = "places"
           /\ IsNone(errors) <=> (nerr = 0)
           /\ nerr > 0
              => /\ Len(Val(errors)) = nerr
                 /\ WeatherGivesError
                    => Val(errors)[1].msg \in WeatherErrorMsgs
                 /\ PlacesGiveError
                    => Val(errors)[nerr].msg \in PlacesErrorMsgs

\* Weather and places both wanted, the weather provider failed and
\* fetch_places found nothing: the text is the fallback and the errors are
\* the weather error, then the places error.
C19_Witness ==
    /\ ResolvedReturned
    /\ o_want = <<"places", "weather">>
    /\ rt_out.kind = "raise"
    /\ fp_out.kind = "return"
    /\ fp_out.val = <<>>
    /\ o_out.val.text = <<Sentence("no_data", None, None, <<>>)>>
    /\ ~IsNone(o_out.val.errors)
    /\ Len(Val(o_out.val.errors)) = 2
    /\ Val(o_out.val.errors)[1].msg \in WeatherErrorMsgs
    /\ Val(o_out.val.errors)[2].msg \in PlacesErrorMsgs

\* C20: after a call of fetch_weather has returned a snapshot, a later call
\* with the same coordinates that starts less than 600 seconds after it
\* returns the same snapshot and issues no request to the weather provider.
C20_WeatherFetchMemoized ==
    \A i \in 1..Len(fw_hist), j \in 1..Len(fw_hist) :
        (/\ i < j
         /\ fw_hist[i].out.kind = "return"
         /\ fw_hist[j].lat = fw_hist[i].lat
         /\ fw_hist[j].lon = fw_hist[i].lon
         /\ fw_hist[j].at - fw_hist[i].end < 600)
        => /\ fw_hist[j].requests = 0
           /\ fw_hist[j].out = fw_hist[i].out

\* The finished lookups of key k, by their place in c_hist.
LookupsOf(k) == {i \in 1..Len(c_hist) : c_hist[i].key = k}

\* C21: a lookup whose wrapped operation raised gives that exception to its
\* caller and writes nothing: a key all of whose finished lookups raised
\* has no entry, and every entry of the store is the value of a lookup that
\* computed it successfully, with that lookup's expiry. While no two
\* lookups of one key have overlapped, the next lookup of the key after a
\* failed one calls the operation again.
C21_NoNegativeCaching ==
    /\ \A i \in 1..Len(c_hist) :
           c_hist[i].out.kind = "raise" => c_hist[i].invoked
    /\ \A k \in CacheKeys :
           /\ (\A i \in LookupsOf(k) : c_hist[i].out.kind = "raise")
              => IsNone(c_store[k])
           /\ ~IsNone(c_store[k])
              => \E i \in LookupsOf(k) :
                     /\ c_hist[i].invoked
                     /\ c_hist[i].out.kind = "return"
                     /\ Val(c_store[k]).val = c_hist[i].out.val
                     /\ Val(c_store[k]).expiry = c_hist[i].now + TtlSeconds
    /\ ~c_overlap
       => \A i, j \in 1..Len(c_hist) :
              (/\ i < j
               /\ c_hist[i].key = c_hist[j].key
               /\ c_hist[i].out.kind = "raise"
               /\ \A m \in (i + 1)..(j - 1) : c_hist[m].key # c_hist[i].key)
              => c_hist[j].invoked

\* A lookup failed, the store has no entry for its key, and the next
\* lookup of that key called the operation and got a value.
C21_Witness ==
    /\ ~c_overlap
    /\ Len(c_hist) >= 2
    /\ c_hist[1].out.kind = "raise"
    /\ c_hist[2].key = c_hist[1].key
    /\ c_hist[2].invoked
    /\ c_hist[2].out.kind = "return"
    /\ \E k \in CacheKeys : k # c_hist[1].key /\ IsNone(c_store[k])

\* This step is the start of a lookup of key k that calls the operation.
StartsComputing(k) ==
    \E p \in Callers :
        /\ c_lk[p].pc = "idle"
        /\ c_lk'[p].pc = "computing"
        /\ c_lk'[p].key = k

\* This step is a lookup of key k served from the store.
ServedFromStore(k) ==
    /\ Len(c_hist') = Len(c_hist) + 1
    /\ c_hist'[Len(c_hist')].key = k
    /\ ~c_hist'[Len(c_hist')].invoked

\* This step is the end of caller p's lookup with a value from the operation.
ComputedBy(p) ==
    /\ c_lk[p].pc = "computing"
    /\ c_lk'[p].pc = "idle"
    /\ Len(c_hist') = Len(c_hist) + 1
    /\ c_hist'[Len(c_hist')].out.kind = "return"

\* C27: a lookup that finds no entry for its key, or an entry whose expiry
\* is at or before the time it reads (the time equal to the expiry
\* included), calls the wrapped operation; a lookup is served from the
\* store only by an entry whose expiry is after the time it reads, so a
\* stale entry is never returned; and a lookup whose operation succeeded
\* replaces the entry of its key with the new value and the expiry of its
\* start time plus the TTL.
C27_CacheExpiryBoundary ==
    [][/\ \A k \in CacheKeys :
              /\ ServedFromStore(k)
                 => /\ ~IsNone(c_store[k])
                    /\ Val(c_store[k]).expiry > c_now
                    /\ c_hist'[Len(c_hist')].out = Return(Val(c_store[k]).val)
              /\ (IsNone(c_store[k]) \/ Val(c_store[k]).expiry <= c_now)
                 => ~ServedFromStore(k)
              /\ StartsComputing(k)
                 => (IsNone(c_store[k]) \/ Val(c_store[k]).expiry <= c_now)
       /\ \A p \in Callers :
              ComputedBy(p)
              => /\ c_hist'[Len(c_hist')].invoked
                 /\ c_store'[c_lk[p].key]
                        = Some([expiry |-> c_lk[p].now + TtlSeconds,
                                val |-> c_hist'[Len(c_hist')].out.val])
                 /\ \A k \in CacheKeys \ {c_lk[p].key} : c_store'[k] = c_store[k]
      ]_vars

\* A lookup that read exactly the expiry of the stored entry called the
\* operation and replaced the entry with another value.
C27_Witness ==
    /\ ~c_overlap
    /\ \E i, j \in 1..Len(c_hist) :
           /\ i < j
           /\ c_hist[i].key = c_hist[j].key
           /\ c_hist[i].invoked
           /\ c_hist[i].out.kind = "return"
           /\ c_hist[j].now = c_hist[i].now + TtlSeconds
           /\ c_hist[j].invoked
           /\ c_hist[j].out.kind = "return"
           /\ c_hist[j].out # c_hist[i].out
           /\ c_store[c_hist[j].key]
                  = Some([expiry |-> c_hist[j].now + TtlSeconds,
                          val |-> c_hist[j].out.val])

\* The callers whose lookup of key k is waiting for the operation.
InFlightFor(k) == {p \in InFlight : c_lk[p].key = k}

\* The finished lookups of key k that computed a value, by their place in
\* c_hist, which is the order in which they finished.
ComputedFor(k) ==
    {i \in LookupsOf(k) : c_hist[i].invoked /\ c_hist[i].out.kind = "return"}

\* C28: there is no single flight. A lookup of a key that has no unexpired
\* entry calls the wrapped operation even while another lookup of that key
\* is waiting for it, so that the operation is then in flight twice for the
\* key; and the entry the store holds for a key is always the one written
\* by the computing lookup of that key that finished last: its value, and
\* its own start time plus the TTL.
C28_NoSingleFlight ==
    /\ [](\A k \in CacheKeys :
              IF ComputedFor(k) = {} THEN IsNone(c_store[k])
              ELSE LET last == CHOOSE i \in ComputedFor(k) :
                                   \A m \in ComputedFor(k) : m <= i
                   IN  c_store[k] = Some([expiry |-> c_hist[last].now + TtlSeconds,
                                          val |-> c_hist[last].out.val]))
    /\ [][\A k \in CacheKeys :
              /\ (/\ InFlightFor(k) # {}
                  /\ IsNone(c_store[k]) \/ Val(c_store[k]).expiry <= c_now)
                 => ~ServedFromStore(k)
              /\ (StartsComputing(k) /\ InFlightFor(k) # {})
                 => /\ Cardinality({p \in Callers :
                                       /\ c_lk'[p].pc = "computing"
                                       /\ c_lk'[p].key = k}) = 2
                    /\ c_store' = c_store
         ]_vars

\* The operation is in flight twice for one key.
C28_Witness ==
    \E k \in CacheKeys :
        /\ Cardinality(InFlightFor(k)) = 2
        /\ c_overlap

\* C29: once a computing lookup has written the entry (v, its start time
\* plus the TTL) for key k, every lookup of k that is served afterwards and
\* reads a time before that expiry returns v, whatever other lookups were
\* in flight when the entry was written and finished afterwards.
C29_ValidEntriesStable ==
    \A k \in CacheKeys :
        \A i \in ComputedFor(k), j \in LookupsOf(k) :
            (/\ i < j
             /\ ~c_hist[j].invoked
             /\ c_hist[j].now < c_hist[i].now + TtlSeconds)
            => c_hist[j].out = c_hist[i].out

\* A lookup that gave no candidates: it raised, or returned an empty list.
NoCandidates(out) == ~(out.kind = "return" /\ out.val # <<>>)

\* C22: geocode_place fails, with the not-found error (a ValueError), if
\* and only if the lookup of the query gave no candidates, the lookup of
\* every alias of the trimmed, lower-cased query gave no candidates and
\* the static table has no entry for it; in every other case it returns a
\* non-empty list of candidates.
C22_ResolverFailureCondition ==
    g_pc \in {"returned", "raised"}
    => LET key      == Lower(Strip(g_query))
           aliases  == AliasMapGet(key)
           static   == StaticRawGet(key)
           nowhere  == /\ key # <<>> => Len(g_lookups) = 1 + Len(aliases)
                       /\ \A j \in 1..Len(g_lookups) : NoCandidates(g_lookups[j].out)
                       /\ IsNone(static)
       IN  /\ (g_pc = "raised" /\ g_out.val.type = "ValueError") <=> nowhere
           /\ ~nowhere => (g_pc = "returned" /\ g_out.val # <<>>)

\* A response after which the request loop goes round again: no response
\* at all, HTTP 429, a status that raise_for_status rejects, or a body
\* that is not JSON.
FailedResponse(seen) ==
    \/ seen.status = 0
    \/ seen.status = 429
    \/ seen.status < 200
    \/ seen.status >= 300
    \/ seen.kind = "invalid"

\* A 2xx response whose body is JSON but holds no list of matches: an
\* empty list, an object or null.
NoMatchResponse(seen) ==
    /\ seen.status \in 200..299
    /\ \/ seen.kind = "list" /\ seen.n = 0
       \/ seen.kind \in {"object", "null"}

\* C30: the primary lookup of geocode_place sends at most 3 requests. Every
\* response but its last one was a failed one (transport error, non-2xx
\* status, HTTP 429), and after the n-th failed response with n < 3 it
\* sleeps 0.5 s, then 1.0 s, before the next request; after the third
\* failed response it does not sleep and ends as a ValueError. A 2xx
\* response whose body is an empty list or JSON that is not a list is not
\* retried: the lookup ends there as a ValueError (no matches); when it is
\* the first response the lookup has sent a single request and never slept.
C30_PrimaryLookupRetry ==
    g_lookups # <<>>
    => LET L     == g_lookups[1]
           n     == Len(L.resps)
           fails == {i \in 1..n : FailedResponse(L.resps[i])}
           ended == L.out # NoOutcome
       IN  /\ L.requests <= 3
           /\ n <= L.requests
           /\ \A i \in 1..(n - 1) : i \in fails
           /\ Len(L.sleeps) = Cardinality(fails \cap {1, 2})
           /\ \A i \in 1..Len(L.sleeps) : L.sleeps[i] = 500 * Pow2(i - 1)
           /\ (n >= 1 /\ n < 3 /\ n \in fails)
              => /\ ~ended
                 /\ L.requests \in {n, n + 1}
           /\ (n = 3 /\ 3 \in fails)
              => /\ ended
                 /\ L.out.kind = "raise"
                 /\ L.out.val.type = "ValueError"
                 /\ L.requests = 3
                 /\ L.sleeps = <<500, 1000>>
           /\ (n >= 1 /\ n \notin fails)
              => /\ ended
                 /\ L.requests = n
           /\ (n >= 1 /\ NoMatchResponse(L.resps[n]))
              => /\ ended
                 /\ L.out.kind = "raise"
                 /\ L.out.val.type = "ValueError"
                 /\ L.requests = n
                 /\ n = 1 => L.sleeps = <<>>

\* A transport error, then HTTP 429, then an empty list: three requests,
\* sleeps of 0.5 s and 1.0 s, and the lookup ended with no matches.
C30_Witness ==
    /\ g_lookups # <<>>
    /\ Len(g_lookups[1].resps) = 3
    /\ g_lookups[1].resps[1].status = 0
    /\ g_lookups[1].resps[2].status = 429
    /\ NoMatchResponse(g_lookups[1].resps[3])
    /\ g_lookups[1].requests = 3
    /\ g_lookups[1].sleeps = <<500, 1000>>
    /\ g_lookups[1].out.kind = "raise"

\* The entries of a raw fetch result that carry the name `name`.
EntriesNamed(places, name) == {i \in 1..Len(places) : places[i].name = name}

\* C23: when fetch_places made a raw fetch at the initial radius and one at
\* the expanded radius and a name came back from both, the entry that
\* fetch_places returns for that name is the entry of the initial-radius
\* fetch, category and all, and it stands where it was first seen, among
\* the entries of the initial-radius fetch.
C23_CrossRadiusMergeKeepsFirst ==
    (/\ fp_pc = "returned"
     /\ Len(fp_log) = 2
     /\ fp_log[1].out.kind = "return"
     /\ fp_log[2].out.kind = "return")
    => LET first  == fp_log[1].out.val
           second == fp_log[2].out.val
       IN  \A i \in 1..Len(first), k \in 1..Len(fp_out.val) :
               (/\ Truthy(first[i].name)
                /\ EntriesNamed(first, first[i].name) = {i}
                /\ EntriesNamed(second, first[i].name) # {}
                /\ fp_out.val[k].name = first[i].name)
               => /\ fp_out.val[k] = first[i]
                  /\ k <= i

\* The forecast list of the result, empty when the result has none.
ForecastOf ==
    IF fc_out.kind = "return" /\ ~IsNone(fc_out.val.forecast)
    THEN Val(fc_out.val.forecast) ELSE <<>>

\* The i-th day of the response carries a weather code (a value, not null).
HasCode(i) ==
    /\ fc_data.daily.weather_codes.kind = "list"
    /\ i <= Len(fc_data.daily.weather_codes.items)
    /\ fc_data.daily.weather_codes.items[i].kind # "null"

\* The value is a number, or the text of one, that the label table lacks.
UnknownCode(val) ==
    /\ val.kind # "missing"
    /\ PyInt(val).kind = "return"
    /\ PyInt(val).val \notin DOMAIN WEATHER_CODE_MAP

\* C24 as stated: a forecast entry whose weather code is not in the label
\* table has an absent summary, as an unknown current weather code has.
C24_ForecastSummaryAbsentForUnknown ==
    fc_out.kind = "return"
    => /\ UnknownCode(fc_data.weathercode) => IsNone(fc_out.val.summary)
       /\ \A i \in 1..Len(ForecastOf) :
              (HasCode(i) /\ UnknownCode(fc_data.daily.weather_codes.items[i]))
              => IsNone(ForecastOf[i].summary)

\* C24: every forecast entry whose day carries a weather code has the label
\* that the table gives the code, the same label the current-conditions
\* summary gives it, except for a code that the table lacks: there the
\* forecast entry's summary is the placeholder "Unknown", while the
\* current-conditions summary of such a code is absent.
C24_ForecastSummaryPlaceholder ==
    fc_out.kind = "return"
    => /\ UnknownCode(fc_data.weathercode) => IsNone(fc_out.val.summary)
       /\ \A i \in 1..Len(ForecastOf) :
              HasCode(i)
              => LET code == fc_data.daily.weather_codes.items[i] IN
                 /\ PyInt(code).kind = "return"
                 /\ UnknownCode(code) => ForecastOf[i].summary = Some("Unknown")
                 /\ ~UnknownCode(code)
                    => /\ ForecastOf[i].summary = Some(WEATHER_CODE_MAP[PyInt(code).val])
                       /\ ForecastOf[i].summary = WeatherSummary(code).val

\* An unknown code 4 both as the current code and as the code of the second
\* day: the current summary is absent, the day's summary is "Unknown".
C24_Witness ==
    /\ fc_out.kind = "return"
    /\ fc_data.weathercode = JsonValue("int", 4, <<>>)
    /\ IsNone(fc_out.val.summary)
    /\ Len(ForecastOf) >= 2
    /\ HasCode(2)
    /\ fc_data.daily.weather_codes.items[2] = JsonValue("int", 4, <<>>)
    /\ ForecastOf[2].summary = Some("Unknown")
    /\ ForecastOf[1].summary = Some("Clear")

\* The number of daily time entries of the response.
DailyCount ==
    IF fc_data.daily.kind = "object" /\ fc_data.daily.times.kind = "list"
    THEN Len(fc_data.daily.times.items) ELSE 0

\* Every parallel array of the response is a list or is not there at all.
ParallelArraysAreLists ==
    \A member \in {fc_data.daily.max_temps, fc_data.daily.min_temps,
                   fc_data.daily.precip_probs, fc_data.daily.weather_codes} :
        member.kind \in {"list", "missing"}

\* C25: for a response whose parallel arrays are lists, the forecast has
\* exactly min(7, number of daily time entries) entries in provider order
\* and is absent when that number is 0; a weather code that cannot be
\* parsed makes only the summary of its entry absent.
C25_ForecastLengthAndDegradation ==
    (fc_out.kind = "return" /\ ParallelArraysAreLists)
    => /\ Len(ForecastOf) = Min(FORECAST_DAYS, DailyCount)
       /\ IsNone(fc_out.val.forecast) <=> DailyCount = 0
       /\ \A i \in 1..Len(ForecastOf) :
              /\ ForecastOf[i].date = fc_data.daily.times.items[i]
              /\ (HasCode(i) /\ PyInt(fc_data.daily.weather_codes.items[i]).kind = "raise")
                 => IsNone(ForecastOf[i].summary)

\* The attempts of the current call that failed and were not the last one
\* the wrapper allows.
FailedBeforeLast == {n \in 1..Len(rt_calls) : rt_calls[n].kind = "raise" /\ n < rt_retries}

FirstNamed ==
    {i \in 1..Len(ov_data) :
        /\ ~IsNone(NameOfElement(ov_data[i]))
        /\ \A j \in 1..(i - 1) : NameOfElement(ov_data[j]) # NameOfElement(ov_data[i])}

\* C31: for every limit >= 0 the parsed output has at most limit entries:
\* as many as there are distinct named elements, but no more than limit;
\* and its a-th entry carries the name of the a-th distinct named element
\* of the response.
C31_RawFetchCap ==
    ov_out.kind = "return" =>
        LET res == ov_out.val IN
        /\ Len(res) <= ov_limit
        /\ Len(res) = Min(ov_limit, Cardinality(FirstNamed))
        /\ \A a \in 1..Len(res) :
               \E i \in FirstNamed :
                   /\ Cardinality({j \in FirstNamed : j <= i}) = a
                   /\ res[a].name = NameOfElement(ov_data[i])

\* orchestrate resolved the place, ran the requested tasks and returned.
ReturnedAfterResolution == o_pc = "returned" /\ ~IsNone(o_geocode) /\ o_out.kind = "return"

\* The text of the result has a sentence of one of the kinds.
HasSentence(kinds) == \E i \in 1..Len(o_out.val.text) : o_out.val.text[i].kind \in kinds

\* The errors list of the result has one of the messages.
HasError(msgs) ==
    /\ ~IsNone(o_out.val.errors)
    /\ \E i \in 1..Len(Val(o_out.val.errors)) : Val(o_out.val.errors)[i].msg \in msgs

WeatherAccounted ==
    \/ HasSentence({"weather_full", "weather_temperature"})
    \/ HasError({"Weather service temporarily unavailable", "Weather service unavailable"})

PlacesAccounted ==
    \/ HasSentence({"places"})
    \/ HasError({"Places service unavailable"})

\* The weather block of the result is a snapshot without an error and
\* without a temperature.
NoTemperatureSnapshot ==
    /\ ~IsNone(o_out.val.weather)
    /\ IsNone(Val(o_out.val.weather).error)
    /\ IsNone(Val(o_out.val.weather).temperature)

FallbackText == o_out.val.text = <<Sentence("no_data", None, None, <<>>)>>

\* want is not empty and names weather and places only.
WantsDomains == o_want # <<>> /\ Range(o_want) \subseteq {"weather", "places"}

\* C36 as stated: after a successful resolution each of weather and places
\* that want names has a sentence in the text or an entry in the errors
\* list, and a fallback text for a non-empty want comes with errors.
C36_EveryDomainAccountedFor ==
    ReturnedAfterResolution
    => /\ "weather" \in Range(o_want) => WeatherAccounted
       /\ "places" \in Range(o_want) => PlacesAccounted
       /\ (WantsDomains /\ FallbackText) => ~IsNone(o_out.val.errors)

\* C36: after a successful resolution places, when want names it, has a
\* sentence in the text or an entry in the errors list; weather, when want
\* names it, has one or the other exactly when its block is not a snapshot
\* that has no error and no temperature; and a fallback text for a
\* non-empty want comes with errors unless want names weather alone and
\* the snapshot has no temperature.
C36_DomainsAccountedExceptNoTemperature ==
    ReturnedAfterResolution
    => /\ "weather" \in Range(o_want) => (WeatherAccounted <=> ~NoTemperatureSnapshot)
       /\ "places" \in Range(o_want) => PlacesAccounted
       /\ (WantsDomains /\ FallbackText)
          => \/ ~IsNone(o_out.val.errors) /\ Val(o_out.val.errors) # <<>>
             \/ Range(o_want) = {"weather"} /\ NoTemperatureSnapshot

\* Both domains requested, each weather request failed and no POI came
\* back: the fallback text with one error of each domain.
C36_Witness ==
    /\ ReturnedAfterResolution
    /\ o_want = <<"weather", "places">>
    /\ FallbackText
    /\ HasError({"Weather service temporarily unavailable"})
    /\ HasError({"Places service unavailable"})
    /\ Len(Val(o_out.val.errors)) = 2

\* What _run_weather returns, read off the outcomes of the weather
\* requests alone: the snapshot of the last request, or the error block
\* when that request failed.
WeatherFromCalls ==
    IF rt_calls # <<>> /\ Last(rt_calls).kind = "return"
    THEN Last(rt_calls).val ELSE WeatherErrorBlock

\* What _run_places returns, read off the outcomes of the raw fetches alone.
RECURSIVE MergeFetches(_, _)
MergeFetches(i, all_places) ==
    IF i > Len(fp_log) THEN all_places
    ELSE MergeFetches(i + 1,
             MergeDedup(all_places,
                        IF fp_log[i].out.kind = "return" THEN fp_log[i].out.val ELSE <<>>))

PlacesFromFetches == SliceTo(MergeFetches(1, <<>>), POI_LIMIT)

\* The result of orchestrate, computed from the resolved place, want and
\* the outcomes of the provider calls of each task, weather before places.
ResultFromOutcomes ==
    LET g  == Val(o_geocode)
        wb == IF "weather" \in Range(o_want) THEN Some(WeatherFromCalls) ELSE None
        pg == IF "places" \in Range(o_want) THEN Some(PlacesFromFetches) ELSE None
        pb == IF "places" \in Range(o_want) THEN Some(PlacesBlock(PlacesFromFetches)) ELSE None
        wp == WeatherPart(wb, o_want)
        pp == PlacesPart(pb, o_want)
    IN  OrchResult(Some(g.display_name), Some(g.lat), Some(g.lon), Some(g.source),
                   wb, pb, pg, SummaryText(wp.parts \o pp.parts),
                   ErrorsOrNone(wp.errors \o pp.errors))

\* C32: once orchestrate has returned after a resolution, its result is
\* the one value that the candidate, want and the outcomes of the provider
\* calls determine: the place is what the geocoding outcome resolves to,
\* the blocks are what each task's own calls give, and the sentences and
\* the errors stand weather first, places second, in whatever order the
\* steps of the two tasks were interleaved and whichever task finished
\* first.
C32_InterleavingIndependence ==
    ReturnedAfterResolution
    => /\ Return(o_geocode) = ResolvePlace(o_geo_out)
       /\ o_out = Return(ResultFromOutcomes)

\* Both tasks were requested, the places task finished before the weather
\* task, which needed all its three attempts, and both failed: the errors
\* stand weather first.
C32_Witness ==
    /\ ReturnedAfterResolution
    /\ o_done = <<"places", "weather">>
    /\ Len(rt_calls) = 3
    /\ Len(fp_log) = 2
    /\ ~IsNone(o_out.val.errors)
    /\ Len(Val(o_out.val.errors)) = 2
    /\ Val(o_out.val.errors)[1].msg = "Weather service temporarily unavailable"
    /\ Val(o_out.val.errors)[2].msg = "Places service unavailable"

\* The number of rate-limited requests of the address that were forwarded
\* within the 60 seconds that end at instant t.
ForwardedWithin(ip, t) ==
    Len(SelectSeq(rl_forwarded[ip], LAMBDA ts : ts <= t /\ t - ts < 60))

\* This step is a request going through dispatch up to call_next or to its
\* rejection (not the clock moving, not a response coming back).
RequestStep ==
    /\ rl_now' = rl_now
    /\ ~(~IsNone(rl_pending) /\ IsNone(rl_pending'))
    /\ ~IsNone(rl_last')

\* C33: at every instant at which requests arrive and for every address at
\* most 30 forwarded rate-limited requests lie within the preceding 60
\* seconds (between two such instants the window only loses requests); a
\* rate-limited request is rejected exactly when 30 forwarded requests of
\* its address lie within the window, and then nothing is forwarded or
\* added to the log; a request to /health is forwarded and leaves the log
\* and the forwarded requests as they were.
C33_SlidingWindowRateLimit ==
    /\ [](\A ip \in ClientIps : \A t \in Range(RateInstants) :
              t <= rl_now => ForwardedWithin(ip, t) <= 30)
    /\ [][RequestStep =>
            LET req == Val(rl_last')
                ip  == IF IsNone(req.client) THEN "unknown" ELSE Val(req.client)
            IN  IF req.path = "/health"
                THEN /\ req.outcome = "forwarded"
                     /\ rl_request_log' = rl_request_log
                     /\ rl_forwarded' = rl_forwarded
                ELSE /\ req.outcome = "rejected" <=> ForwardedWithin(ip, rl_now) >= 30
                     /\ req.outcome = "rejected"
                        => /\ rl_forwarded' = rl_forwarded
                           /\ Len(rl_request_log'[ip]) = ForwardedWithin(ip, rl_now)
                           /\ Range(rl_request_log'[ip]) \subseteq Range(rl_forwarded[ip])
                     /\ req.outcome = "forwarded"
                        => /\ rl_forwarded'[ip] = Append(rl_forwarded[ip], rl_now)
                           /\ Len(rl_request_log'[ip]) = ForwardedWithin(ip, rl_now) + 1
         ]_vars

\* At second 60 a request of address a was rejected: 30 forwarded requests
\* lie within the window, while earlier ones, of second 0, have left it.
C33_Witness ==
    /\ rl_now = 60
    /\ rl_last = Some(Dispatched("/api/plan", Some("a"), "rejected"))
    /\ ForwardedWithin("a", 60) = 30
    /\ Len(rl_forwarded["a"]) > 30
    /\ rl_forwarded["a"][1] = 0
    /\ Len(rl_forwarded["unknown"]) = 1

\* The computing lookups of key k that finished before the j-th finished
\* lookup.
ComputedBefore(k, j) == {i \in ComputedFor(k) : i < j}

\* C34: every lookup that was served from the store, at the time t it read,
\* returned the value of the computing lookup of its key that finished
\* last before it, and that lookup read its own time t0 with
\* t0 <= t < t0 + TTL, however the lookups overlapped: no value is served
\* TTL or more after the start of its computation.
C34_CacheFreshness ==
    \A j \in 1..Len(c_hist) :
        ~c_hist[j].invoked
        => /\ ComputedBefore(c_hist[j].key, j) # {}
           /\ LET i == CHOOSE i \in ComputedBefore(c_hist[j].key, j) :
                           \A m \in ComputedBefore(c_hist[j].key, j) : m <= i
              IN  /\ c_hist[j].out = c_hist[i].out
                  /\ c_hist[i].now <= c_hist[j].now
                  /\ c_hist[j].now < c_hist[i].now + TtlSeconds

\* Two lookups of one key overlapped, both started at time 0 and finished
\* after the clock had moved, and a third lookup was served at time 1, the
\* last instant before the entry expires.
C34_Witness ==
    /\ c_overlap
    /\ Len(c_hist) = 3
    /\ c_hist[1].invoked /\ c_hist[2].invoked /\ ~c_hist[3].invoked
    /\ c_hist[1].key = c_hist[3].key
    /\ c_hist[2].key = c_hist[3].key
    /\ c_hist[1].now = 0
    /\ c_hist[2].now = 0
    /\ c_hist[1].out # c_hist[2].out
    /\ c_hist[3].now = TtlSeconds - 1
    /\ c_hist[3].out = c_hist[2].out


(***************************************************************************)
(* C35: bounded work and termination.  Under the fair specification, every *)
(* orchestrate call that went on to the providers eventually returns, and  *)
(* at no moment has it issued more than 9 geocoding requests (at most 3    *)
(* lookups, the query and at most 2 aliases, of at most 3 attempts each),  *)
(* more than 3 weather requests, or more than 6 POI requests (at most 2    *)
(* raw fetches of at most 3 attempts each).                                *)
(***************************************************************************)
GeocodingBounded ==
    /\ o_geo_requests <= 9
    /\ Len(g_lookups) <= 3
    /\ \A i \in 1..Len(g_lookups) : g_lookups[i].requests <= 3
    /\ o_geo_requests >= GeoRequests(g_lookups)

WeatherBounded == rt_invocations <= 3

PoiBounded ==
    /\ pf_requests <= 6
    /\ Len(fp_log) <= 2
    /\ pf_attempt < 3
    /\ pf_requests <= 3 * Len(fp_log)

OrchestrateRunning == o_pc \in {"resolving", "gathering"}

C35_BoundedWorkAndTermination ==
    /\ [](GeocodingBounded /\ WeatherBounded /\ PoiBounded /\ o_pc # "raised")
    /\ OrchestrateRunning ~> (o_pc = "returned")

C35_Witness ==
    /\ o_pc = "returned"
    /\ o_geo_requests = 9
    /\ rt_invocations = 3
    /\ pf_requests = 6

====
